---- MODULE Spec2Model ----
(***************************************************************************)
(* The Othello match server (server/index.ts) and the shared rule engine   *)
(* (shared/othello.ts) as a state machine, with the computer player        *)
(* (src/lib/cpuPlayer.ts) and the headless match of scripts/cpuBench.ts.   *)
(*                                                                         *)
(* Every event reaction of the server (a connection, an inbound message,   *)
(* a transport close event, a disconnect timer, a sweep tick) is one       *)
(* action.  Handlers are operators on a record                             *)
(*   [clients, rooms, roomOrder, randomQueue, keysDrawn, outbox, running]  *)
(* so that they call each other exactly as the functions of the source do. *)
(*                                                                         *)
(* Conventions                                                             *)
(*  - session identifiers (randomUUID) are 1, 2, ... in minting order.     *)
(*    A match key (createMatchKey) is any element of MatchKeys, whether    *)
(*    or not a room of the index has it: the generator looks at no room.   *)
(*    0 stands for a null identifier, a null key and a null deadline, -1   *)
(*    for a null lastMove, "null" for a null disk, role or winner.         *)
(*  - rooms is the Map rooms as a function of the key, and roomOrder its   *)
(*    keys in the order the Map iterates them (insertion order).           *)
(*  - keysDrawn counts the calls of createMatchKey so far; the program     *)
(*    keeps no such counter, the model bounds the rooms created with it.   *)
(*  - clients holds every ClientMeta object ever built.  A meta stays      *)
(*    reachable from the handlers of its socket after clientsById.delete;  *)
(*    registered says whether clientsById still maps its id to it.         *)
(*  - socket is the readyState of meta.socket: OPEN, CLOSING (no longer    *)
(*    open, its close event not delivered yet) or CLOSED (close event      *)
(*    delivered).  stale counts the sockets the meta was bound to before,  *)
(*    terminated by a rebind, whose close event has not been delivered.    *)
(*  - the outbox of a handler's result is the sequence of messages the     *)
(*    event reaction sent; it is not kept between events.                  *)
(*  - netEvents counts the transport failures so far: the closes of a     *)
(*    bound socket and the connections that supersede an OPEN socket.      *)
(*  - room.createdAt is written once and never read; it is left out.       *)
(*  - running says whether the node process is alive.  An exception no     *)
(*    handler catches and an 'error' event no listener takes end it, and   *)
(*    with it the sessions, the rooms, the queue and the timers; nothing   *)
(*    starts it again.                                                     *)
(*  - bench is the match of the benchmark script (board, disk on move,     *)
(*    passes in a row, opening plies left, difficulties); the server never *)
(*    reads or writes it.                                                  *)
(***************************************************************************)
EXTENDS Integers, Sequences, FiniteSets, TLC

VARIABLES clients, rooms, roomOrder, randomQueue, keysDrawn, now, netEvents, bench,
          running

vars == <<clients, rooms, roomOrder, randomQueue, keysDrawn, now, netEvents, bench,
          running>>

(***************************************************************************)
(* Bounds of the model                                                     *)
(***************************************************************************)
MaxSessions == 3
MaxKeys == 2
MaxRooms == 2
MaxTime == 2
MaxStale == 1
MaxNetEvents == 1
MaxPlies == 3
OpeningPlies == 2
TailPlies == 2
MatchStart == 52
BenchOpening == 55
MaxRandomPlies == 2

(***************************************************************************)
(* Program constants                                                       *)
(***************************************************************************)
BOARD_SIZE == 8

\* MATCH_TURN_TIMEOUT_MS; the clock of the model counts in units of it.
TURN_TIMEOUT_MS == 1

NullId == 0
NullKey == 0
NullDeadline == 0
NullMove == -1
Null == "null"

Disks == {"B", "W"}

(***************************************************************************)
(* shared/othello.ts                                                       *)
(***************************************************************************)
DIRECTIONS ==
  << <<-1, -1>>, <<-1, 0>>, <<-1, 1>>, <<0, -1>>,
     <<0, 1>>, <<1, -1>>, <<1, 0>>, <<1, 1>> >>

Cells == 0 .. (BOARD_SIZE * BOARD_SIZE - 1)

toIndex(row, col) == row * BOARD_SIZE + col

isInBounds(row, col) ==
  row >= 0 /\ row < BOARD_SIZE /\ col >= 0 /\ col < BOARD_SIZE

createInitialBoard ==
  LET center == BOARD_SIZE \div 2
      topLeft == toIndex(center - 1, center - 1)
  IN [i \in Cells |->
        IF i = topLeft THEN "W"
        ELSE IF i = topLeft + 1 THEN "B"
        ELSE IF i = topLeft + BOARD_SIZE THEN "B"
        ELSE IF i = topLeft + BOARD_SIZE + 1 THEN "W"
        ELSE Null]

nextDisk(disk) == IF disk = "B" THEN "W" ELSE "B"

DISK_LABEL(disk) == IF disk = "B" THEN "Black" ELSE "White"

\* A plausible slip: a run that reaches the edge of the board is captured.
RECURSIVE walk_EdgeCaptures(_, _, _, _, _, _, _)
walk_EdgeCaptures(board, disk, r, c, dRow, dCol, captured) ==
  IF ~isInBounds(r, c) THEN captured
  ELSE LET targetIndex == toIndex(r, c)
           occupant == board[targetIndex]
       IN IF occupant = Null THEN {}
          ELSE IF occupant = disk THEN captured
          ELSE walk_EdgeCaptures(board, disk, r + dRow, c + dCol, dRow, dCol,
                                 captured \cup {targetIndex})

\* The while loop of computeValidMoves for one direction: the cells captured
\* walking from (r, c), or none when the run meets an empty cell or the edge.
RECURSIVE walk(_, _, _, _, _, _, _)
walk(board, disk, r, c, dRow, dCol, captured) ==
  IF ~isInBounds(r, c) THEN {}
  ELSE LET targetIndex == toIndex(r, c)
           occupant == board[targetIndex]
       IN IF occupant = Null THEN {}
          ELSE IF occupant = disk THEN captured
          ELSE walk(board, disk, r + dRow, c + dCol, dRow, dCol,
                    captured \cup {targetIndex})

\* The flips the forEach body of computeValidMoves collects for one cell.
flipsAt(board, disk, index) ==
  LET row == index \div BOARD_SIZE
      col == index % BOARD_SIZE
  IN UNION { walk(board, disk, row + DIRECTIONS[d][1], col + DIRECTIONS[d][2],
                  DIRECTIONS[d][1], DIRECTIONS[d][2], {}) : d \in 1 .. 8 }

\* MoveMap: the legal cells, each mapped to the set of cells it flips.
computeValidMoves(board, disk) ==
  LET legal == { index \in Cells :
                   board[index] = Null /\ flipsAt(board, disk, index) # {} }
  IN [index \in legal |-> flipsAt(board, disk, index)]

\* A plausible slip: a cell that holds a disk is not skipped.
validMovesGet_OccupiedToo(board, disk, index) ==
  IF index \in Cells
  THEN flipsAt(board, disk, index)
  ELSE {}

\* computeValidMoves(board, disk).get(index), computed for the one cell: the
\* flips of a legal index, and the empty set where get returns undefined.
validMovesGet(board, disk, index) ==
  IF index \in Cells /\ board[index] = Null
  THEN flipsAt(board, disk, index)
  ELSE {}

\* A plausible slip: any empty cell is taken for a move.
hasValidMoves_AnyEmpty(board, disk) ==
  \E index \in Cells : board[index] = Null

\* computeValidMoves(board, disk).size > 0
hasValidMoves(board, disk) ==
  \E index \in Cells : board[index] = Null /\ flipsAt(board, disk, index) # {}

\* A plausible slip: only the captured cells are written.
applyMove_FlipsOnly(board, index, disk, flips) ==
  [i \in DOMAIN board |-> IF i \in flips THEN disk ELSE board[i]]

\* Arrays are objects: a store is the sequence of the arrays that are alive,
\* and a reference to an array is its index in the store.
\* A plausible slip: no copy is made and the reference given is returned.
arraySlice_Alias(store, ref) == [store |-> store, ref |-> ref]

\* board.slice(): a new array with the cells of the array at ref.
arraySlice(store, ref) ==
  [store |-> Append(store, store[ref]), ref |-> Len(store) + 1]

\* applyMove called with the array at ref: the store after the call and the
\* reference returned.  index and flips are cell indices of the board.
applyMoveStored(store, ref, index, disk, flips) ==
  LET next == arraySlice(store, ref)
      cells == next.store[next.ref]
  IN [store |-> [next.store EXCEPT
                   ![next.ref] = [i \in DOMAIN cells |->
                                    IF i = index \/ i \in flips THEN disk
                                    ELSE cells[i]]],
      ref |-> next.ref]

\* The array passed to applyMove, after the call.
applyMoveInput(board, index, disk, flips) ==
  applyMoveStored(<<board>>, 1, index, disk, flips).store[1]

\* The cells of the array applyMove returns.
applyMove(board, index, disk, flips) ==
  LET call == applyMoveStored(<<board>>, 1, index, disk, flips)
  IN call.store[call.ref]

\* A plausible slip: every cell that is not Black is counted as White.
countDisks_ElseWhite(board) ==
  [B |-> Cardinality({i \in DOMAIN board : board[i] = "B"}),
   W |-> Cardinality({i \in DOMAIN board : board[i] # "B"})]

countDisks(board) ==
  [B |-> Cardinality({i \in DOMAIN board : board[i] = "B"}),
   W |-> Cardinality({i \in DOMAIN board : board[i] = "W"})]

(***************************************************************************)
(* src/lib/cpuPlayer.ts: the computer player                               *)
(***************************************************************************)
\* maxDepth of each difficulty preset.
CPU_DIFFICULTY_PRESETS == [easy |-> 2, normal |-> 4, hard |-> 5, saikyo |-> 6]

CORNERS == {0, 7, 56, 63}

CORNER_ADJACENT(corner) ==
  CASE corner = 0 -> {1, 8, 9}
    [] corner = 7 -> {6, 14, 15}
    [] corner = 56 -> {48, 49, 57}
    [] corner = 63 -> {54, 55, 62}

CORNER_DANGER == {1, 8, 9, 6, 14, 15, 48, 49, 57, 54, 55, 62}

EDGE_INDICES ==
  { index \in Cells :
      LET row == index \div BOARD_SIZE
          col == index % BOARD_SIZE
      IN row = 0 \/ row = BOARD_SIZE - 1 \/ col = 0 \/ col = BOARD_SIZE - 1 }

\* Scores are JavaScript numbers, IEEE 754 doubles: -Infinity, Infinity
\* (inf = -1, 1) or, with inf = 0, the finite value
\*   (mag[1] + mag[2] * 2^20 + mag[3] * 2^40 + mag[4] * 2^60) / 2^64,
\* negative when neg holds, of at most MantissaBits significant bits.  A
\* score of the evaluation is 0 or has a magnitude between 2^-11 and 2^16,
\* so this form holds it exactly; the operators round as the operators
\* /, * and + of the language do (to nearest, ties to even).
LimbBits == 20
LimbBase == 2 ^ LimbBits
Limbs == 4
FractionBits == 64
MantissaBits == 53

ZeroMag == <<0, 0, 0, 0>>

Number(neg, magnitude) ==
  LET mag == magnitude
  IN [inf |-> 0, neg |-> neg /\ mag # ZeroMag, mag |-> mag]

NegInfinity == [inf |-> -1, neg |-> FALSE, mag |-> ZeroMag]
PosInfinity == [inf |-> 1, neg |-> FALSE, mag |-> ZeroMag]

\* The bit of weight 2^i of mag, and whether a bit of lower weight is set.
bitAt(mag, i) == (mag[i \div LimbBits + 1] \div (2 ^ (i % LimbBits))) % 2

anyBelow(magnitude, i) ==
  LET mag == magnitude
  IN \/ \E j \in 1 .. (i \div LimbBits) : mag[j] # 0
     \/ mag[i \div LimbBits + 1] % (2 ^ (i % LimbBits)) # 0

\* The number of bits of mag from its highest set bit down.
bitLength(magnitude) ==
  LET mag == magnitude
  IN IF mag = ZeroMag THEN 0
     ELSE LET top == CHOOSE j \in 1 .. Limbs :
                       mag[j] # 0 /\ \A h \in (j + 1) .. Limbs : mag[h] = 0
              limb == mag[top]
              width == CHOOSE n \in 1 .. LimbBits :
                         2 ^ (n - 1) <= limb /\ limb < 2 ^ n
          IN (top - 1) * LimbBits + width

\* mag with the bits of weight below 2^d cleared, and the magnitude 2^d.
clearBelow(magnitude, d) ==
  LET mag == magnitude
  IN [j \in 1 .. Limbs |->
        IF j * LimbBits <= d THEN 0
        ELSE IF (j - 1) * LimbBits >= d THEN mag[j]
        ELSE mag[j] - (mag[j] % (2 ^ (d - (j - 1) * LimbBits)))]

pow2(d) ==
  [j \in 1 .. Limbs |-> IF j = d \div LimbBits + 1 THEN 2 ^ (d % LimbBits) ELSE 0]

plus(left, right) ==
  LET a == left
      b == right
      s1 == a[1] + b[1]
      s2 == a[2] + b[2] + s1 \div LimbBase
      s3 == a[3] + b[3] + s2 \div LimbBase
      s4 == a[4] + b[4] + s3 \div LimbBase
  IN <<s1 % LimbBase, s2 % LimbBase, s3 % LimbBase, s4>>

\* a - b, for a >= b
minus(left, right) ==
  LET a == left
      b == right
      d1 == a[1] - b[1]
      d2 == a[2] - b[2] - (IF d1 < 0 THEN 1 ELSE 0)
      d3 == a[3] - b[3] - (IF d2 < 0 THEN 1 ELSE 0)
      d4 == a[4] - b[4] - (IF d3 < 0 THEN 1 ELSE 0)
  IN <<d1 % LimbBase, d2 % LimbBase, d3 % LimbBase, d4>>

magLess(left, right) ==
  LET a == left
      b == right
  IN \E j \in 1 .. Limbs : a[j] < b[j] /\ \A h \in (j + 1) .. Limbs : a[h] = b[h]

\* mag rounded to a multiple of 2^excess, to nearest, ties to even; sticky
\* says that the exact result has something below the bits of mag.
roundAt(magnitude, sticky, excess) ==
  LET mag == magnitude
      d == excess
  IN IF d <= 0 THEN mag
     ELSE LET up == /\ bitAt(mag, d - 1) = 1
                    /\ \/ sticky
                       \/ anyBelow(mag, d - 1)
                       \/ bitAt(mag, d) = 1
              kept == clearBelow(mag, d)
          IN IF up THEN plus(kept, pow2(d)) ELSE kept

\* The magnitude of the double nearest to an exact result: mag is the result
\* cut to a multiple of 2^-64 and sticky says that something was cut off.
roundToDouble(magnitude, sticky) ==
  roundAt(magnitude, sticky, bitLength(magnitude) - MantissaBits)

\* The integer n as a number.
Whole(integer) ==
  LET n == integer
  IN Number(n < 0,
            <<0, 0, 0, (IF n < 0 THEN -n ELSE n) * 2 ^ (FractionBits - 3 * LimbBits)>>)

\* n / d, for integers n and d > 0
Quotient(numerator, denominator) ==
  LET n == numerator
      d == denominator
      t4 == (IF n < 0 THEN -n ELSE n) * 2 ^ (FractionBits - 3 * LimbBits)
      t3 == (t4 % d) * LimbBase
      t2 == (t3 % d) * LimbBase
      t1 == (t2 % d) * LimbBase
  IN Number(n < 0,
            roundToDouble(<<t1 \div d, t2 \div d, t3 \div d, t4 \div d>>, t1 % d # 0))

\* x * k, for a finite x and an integer k > 0
Times(number, k) ==
  LET x == number
      p1 == x.mag[1] * k
      p2 == x.mag[2] * k + p1 \div LimbBase
      p3 == x.mag[3] * k + p2 \div LimbBase
      p4 == x.mag[4] * k + p3 \div LimbBase
  IN Number(x.neg,
            roundToDouble(<<p1 % LimbBase, p2 % LimbBase, p3 % LimbBase, p4>>, FALSE))

\* -x
Negated(number) ==
  LET x == number
  IN [x EXCEPT !.inf = -@, !.neg = ~@ /\ x.inf = 0 /\ x.mag # ZeroMag]

\* x + y, for finite x and y
Sum(left, right) ==
  LET x == left
      y == right
      smaller == magLess(x.mag, y.mag)
  IN Number(IF x.neg # y.neg /\ smaller THEN y.neg ELSE x.neg,
            roundToDouble(IF x.neg = y.neg THEN plus(x.mag, y.mag)
                          ELSE IF smaller THEN minus(y.mag, x.mag)
                          ELSE minus(x.mag, y.mag),
                          FALSE))

\* x > y
Greater(left, right) ==
  LET x == left
      y == right
  IN IF x.inf # y.inf THEN x.inf > y.inf
     ELSE IF x.inf # 0 THEN FALSE
     ELSE IF x.neg # y.neg THEN y.neg
     ELSE IF x.neg THEN magLess(x.mag, y.mag)
     ELSE magLess(y.mag, x.mag)

scoreMove(index) ==
  IF index \in CORNERS THEN 100
  ELSE IF index \in CORNER_DANGER THEN -40
  ELSE IF index \in EDGE_INDICES THEN 10
  ELSE 0

\* orderMoves([...moves.entries()]): the keys of the map, by falling
\* scoreMove; the sort is stable, so equal scores keep the rising order of
\* the indices in which computeValidMoves inserts them.
RECURSIVE orderMoves(_)
orderMoves(keys) ==
  IF keys = {} THEN << >>
  ELSE LET first == CHOOSE a \in keys : \A b \in keys :
                      \/ scoreMove(a) > scoreMove(b)
                      \/ scoreMove(a) = scoreMove(b) /\ a <= b
       IN <<first>> \o orderMoves(keys \ {first})

getDiskScore(board, disk, opponent) ==
  LET counts == countDisks(board)
      total == counts[disk] + counts[opponent]
  IN IF total = 0 THEN Whole(0)
     ELSE Times(Quotient(counts[disk] - counts[opponent], total), 100)

getMobilityScore(board, disk, opponent) ==
  LET myMoves == Cardinality(DOMAIN computeValidMoves(board, disk))
      oppMoves == Cardinality(DOMAIN computeValidMoves(board, opponent))
      total == myMoves + oppMoves
  IN IF total = 0 THEN Whole(0)
     ELSE Times(Quotient(myMoves - oppMoves, total), 90)

getCornerScore(board, disk, opponent) ==
  LET held(d) == Cardinality({ corner \in CORNERS : board[corner] = d })
      beside(d) ==
        Cardinality({ <<corner, adj>> \in CORNERS \X CORNER_DANGER :
                        /\ board[corner] = Null
                        /\ adj \in CORNER_ADJACENT(corner)
                        /\ board[adj] = d })
  IN Whole(125 * held(disk) - 125 * held(opponent)
             - 40 * beside(disk) + 40 * beside(opponent))

\* The cells the loops over dRow and dCol reach from a cell: its neighbours
\* inside the board.
FRONTIER_NEIGHBOURS ==
  [index \in Cells |->
     LET row == index \div BOARD_SIZE
         col == index % BOARD_SIZE
     IN { (row + dRow) * BOARD_SIZE + (col + dCol) :
            <<dRow, dCol>> \in { d \in {-1, 0, 1} \X {-1, 0, 1} :
                                  /\ ~(d[1] = 0 /\ d[2] = 0)
                                  /\ isInBounds(row + d[1], col + d[2]) } }]

\* A cell with an empty cell among its neighbours on the board.
isFrontier(board, index) ==
  \E neighborIndex \in FRONTIER_NEIGHBOURS[index] : board[neighborIndex] = Null

getFrontierScore(board, disk, opponent) ==
  LET frontier == { index \in DOMAIN board :
                      board[index] # Null /\ isFrontier(board, index) }
      myFrontier == Cardinality({ index \in frontier : board[index] = disk })
      oppFrontier == Cardinality({ index \in frontier : board[index] = opponent })
      total == myFrontier + oppFrontier
  IN IF total = 0 THEN Whole(0)
     ELSE Times(Quotient(oppFrontier - myFrontier, total), 60)

getEdgeScore(board, disk, opponent) ==
  Whole(6 * Cardinality({ index \in EDGE_INDICES : board[index] = disk })
          - 6 * Cardinality({ index \in EDGE_INDICES : board[index] = opponent }))

evaluateBoard(board, disk) ==
  LET opponent == nextDisk(disk)
  IN Sum(Sum(Sum(Sum(getDiskScore(board, disk, opponent),
                     getMobilityScore(board, disk, opponent)),
                 getCornerScore(board, disk, opponent)),
             getFrontierScore(board, disk, opponent)),
         getEdgeScore(board, disk, opponent))

\* raw, or -raw when negate holds
signed(raw, negate) == IF negate THEN Negated(raw) ELSE raw

evaluatePerspective(board, disk, maximizingDisk) ==
  signed(evaluateBoard(board, maximizingDisk), disk # maximizingDisk)

\* negamax returns the move, its score and the nodes it visited
\* (context.stats.nodes); searchMoves is its loop over the ordered moves,
\* from the i-th on.  board is a reference into the store of arrays, and the
\* store after the call is part of the result.
RECURSIVE negamax(_, _, _, _, _, _, _)
RECURSIVE searchMoves(_, _, _, _, _, _, _, _, _, _, _, _, _)
negamax(givenStore, board, disk, depth, givenAlpha, givenBeta, maximizingDisk) ==
  LET store == givenStore
      alpha == givenAlpha
      beta == givenBeta
  IN IF depth = 0
     THEN [move |-> NullMove,
           score |-> evaluatePerspective(store[board], disk, maximizingDisk),
           nodes |-> 1, store |-> store]
     ELSE LET moves == computeValidMoves(store[board], disk)
              opponent == nextDisk(disk)
          IN IF DOMAIN moves = {}
             THEN IF DOMAIN computeValidMoves(store[board], opponent) = {}
                  THEN [move |-> NullMove,
                        score |-> evaluatePerspective(store[board], disk, maximizingDisk),
                        nodes |-> 1, store |-> store]
                  ELSE LET passResult ==
                             negamax(store, board, opponent, depth, Negated(beta),
                                     Negated(alpha), maximizingDisk)
                       IN [move |-> NullMove,
                           score |-> Negated(passResult.score),
                           nodes |-> 1 + passResult.nodes,
                           store |-> passResult.store]
             ELSE searchMoves(store, board, disk, depth, moves, orderMoves(DOMAIN moves),
                              1, alpha, beta, NullMove, NegInfinity, 1, maximizingDisk)

searchMoves(s0, board, disk, depth, moves, orderedMoves, i, a0, beta, m0, b0, n0, maximizingDisk) ==
  LET store == s0
      alpha == a0
      bestMove == m0
      bestScore == b0
      nodes == n0
  IN IF i > Len(orderedMoves)
     THEN [move |-> bestMove, score |-> bestScore, nodes |-> nodes, store |-> store]
     ELSE LET index == orderedMoves[i]
              nextBoard == applyMoveStored(store, board, index, disk, moves[index])
              result == negamax(nextBoard.store, nextBoard.ref, nextDisk(disk),
                                depth - 1, Negated(beta), Negated(alpha), maximizingDisk)
              \* the array nextBoard is referenced no longer
              newStore == SubSeq(result.store, 1, Len(store))
              score == Negated(result.score)
              better == Greater(score, bestScore)
              newMove == IF better THEN index ELSE bestMove
              newScore == IF better THEN score ELSE bestScore
              newAlpha == IF Greater(score, alpha) THEN score ELSE alpha
              newNodes == nodes + result.nodes
          IN IF ~Greater(beta, newAlpha)
             THEN [move |-> newMove, score |-> newScore, nodes |-> newNodes,
                   store |-> newStore]
             ELSE searchMoves(newStore, board, disk, depth, moves, orderedMoves, i + 1,
                              newAlpha, beta, newMove, newScore, newNodes,
                              maximizingDisk)

\* The object chooseCpuMove returns for the result of the search, and the
\* cells of the array it was given after the call.
cpuMoveCall(searched, maxDepth) ==
  LET result == searched
  IN [result |-> [move |-> result.move, score |-> result.score,
                  depth |-> maxDepth, nodes |-> result.nodes],
      input |-> result.store[1]]

\* chooseCpuMove(board, disk, { difficulty }) called with board the only
\* array alive.
chooseCpuMoveCall(board, disk, difficulty) ==
  cpuMoveCall(negamax(<<board>>, 1, disk, CPU_DIFFICULTY_PRESETS[difficulty],
                      NegInfinity, PosInfinity, disk),
              CPU_DIFFICULTY_PRESETS[difficulty])

chooseCpuMove(board, disk, difficulty) ==
  chooseCpuMoveCall(board, disk, difficulty).result

(***************************************************************************)
(* server/index.ts: state and helpers                                      *)
(***************************************************************************)
SessionIds == 1 .. MaxSessions
\* The keys createMatchKey can give.
MatchKeys == 1 .. MaxKeys

\* The registry clientsById: the ids it maps.
clientsById(S) == { id \in DOMAIN S.clients : S.clients[id].registered }

\* The state an event reaction starts from; its outbox is empty.
Cur == [clients |-> clients, rooms |-> rooms, roomOrder |-> roomOrder,
        randomQueue |-> randomQueue, keysDrawn |-> keysDrawn, outbox |-> << >>,
        running |-> running]

\* The process ends on an uncaught exception or an unhandled 'error' event:
\* the Maps and the queue of the module are gone with their timers, every
\* socket is closed by the system, and no message is sent.
processExit(S) ==
  [clients |-> << >>, rooms |-> << >>, roomOrder |-> << >>,
   randomQueue |-> << >>, keysDrawn |-> S.keysDrawn, outbox |-> << >>,
   running |-> FALSE]

toStatePayload(room) ==
  [matchKey |-> room.key,
   board |-> room.board,
   currentDisk |-> room.currentDisk,
   lastMove |-> room.lastMove,
   scores |-> countDisks(room.board),
   spectators |-> Len(room.spectators),
   statusMessage |-> room.statusMessage,
   winner |-> room.winner,
   turnDeadline |-> room.turnDeadline]

\* send(meta.socket, type, payload): dropped unless the socket is OPEN.
send(S, id, type, payload) ==
  IF S.clients[id].socket # "OPEN" THEN S
  ELSE [S EXCEPT !.outbox =
          Append(@, [to |-> id, type |-> type, payload |-> payload])]

sendById(S, clientId, type, payload) ==
  IF clientId = NullId THEN S
  ELSE IF clientId \notin clientsById(S) THEN S
  ELSE send(S, clientId, type, payload)

RECURSIVE sendToAll(_, _, _, _)
sendToAll(S, ids, type, payload) ==
  IF ids = << >> THEN S
  ELSE sendToAll(sendById(S, Head(ids), type, payload), Tail(ids), type, payload)

\* Object.keys(room.players) is B then W; the Set iterates in insertion order.
broadcastRoom(S, key, type, payload) ==
  LET room == S.rooms[key]
  IN sendToAll(S, <<room.players.B, room.players.W>> \o room.spectators,
               type, payload)

removeFromQueue(S, clientId) ==
  IF \E i \in DOMAIN S.randomQueue : S.randomQueue[i] = clientId
  THEN LET index == CHOOSE i \in DOMAIN S.randomQueue :
                      /\ S.randomQueue[i] = clientId
                      /\ \A j \in 1 .. (i - 1) : S.randomQueue[j] # clientId
       IN [S EXCEPT !.randomQueue =
             SubSeq(@, 1, index - 1) \o SubSeq(@, index + 1, Len(@))]
  ELSE S

releaseClient(S, clientId) ==
  IF clientId = NullId THEN S
  ELSE IF clientId \notin clientsById(S) THEN S
  ELSE [S EXCEPT !.clients[clientId].status = "idle",
                 !.clients[clientId].role = Null,
                 !.clients[clientId].roomKey = NullKey,
                 !.clients[clientId].disk = Null]

RECURSIVE releaseAll(_, _)
releaseAll(S, ids) ==
  IF ids = << >> THEN S
  ELSE releaseAll(releaseClient(S, Head(ids)), Tail(ids))

releaseRoomOccupants(S, key) ==
  LET room == S.rooms[key]
      S1 == releaseAll(S, <<room.players.B, room.players.W>> \o room.spectators)
  IN [S1 EXCEPT !.rooms[key].players = [B |-> NullId, W |-> NullId],
                !.rooms[key].spectators = << >>]

\* A plausible slip: the two branches are exchanged.
refreshTurnDeadline_Swapped(S, key) ==
  IF S.rooms[key].status = "playing"
  THEN [S EXCEPT !.rooms[key].turnDeadline = NullDeadline]
  ELSE [S EXCEPT !.rooms[key].turnDeadline = now + TURN_TIMEOUT_MS]

refreshTurnDeadline(S, key) ==
  IF S.rooms[key].status = "playing"
  THEN [S EXCEPT !.rooms[key].turnDeadline = now + TURN_TIMEOUT_MS]
  ELSE [S EXCEPT !.rooms[key].turnDeadline = NullDeadline]

\* rooms.set(key, room): a key of the Map keeps its place in the order.
roomsSet(S, key, room) ==
  [S EXCEPT !.rooms = [k \in (DOMAIN S.rooms) \cup {key} |->
                         IF k = key THEN room ELSE S.rooms[k]],
            !.roomOrder = IF key \in DOMAIN S.rooms THEN @ ELSE Append(@, key)]

\* rooms.delete(key).
roomsDelete(S, key) ==
  [S EXCEPT !.rooms = [k \in (DOMAIN S.rooms) \ {key} |-> S.rooms[k]],
            !.roomOrder = SelectSeq(@, LAMBDA k : k # key)]

cleanupRoom(S, key, reason) ==
  LET S1 == [S EXCEPT !.rooms[key].turnDeadline = NullDeadline]
      state == toStatePayload(S1.rooms[key])
      S2 == broadcastRoom(S1, key, "match:end", [reason |-> reason, state |-> state])
      S3 == releaseRoomOccupants(S2, key)
  IN roomsDelete(S3, key)

scoreText(scores) == ToString(scores.B) \o "-" \o ToString(scores.W)

\* A plausible slip: the comparison of the scores is inverted.
boardWinner_Inverted(scores) ==
  IF scores.B = scores.W THEN "draw"
  ELSE IF scores.B < scores.W THEN "B" ELSE "W"

\* The winner deriveStatusMessage records when neither disk can move.
boardWinner(scores) ==
  IF scores.B = scores.W THEN "draw"
  ELSE IF scores.B > scores.W THEN "B" ELSE "W"

deriveStatusMessage(S, key) ==
  LET room == S.rooms[key]
  IN IF room.status = "finished"
     THEN LET S1 == [S EXCEPT !.rooms[key].turnDeadline = NullDeadline]
          IN IF room.winner = "draw"
             THEN [S1 EXCEPT !.rooms[key].statusMessage = "Game over - it's a draw."]
             ELSE IF room.winner # Null
             THEN [S1 EXCEPT !.rooms[key].statusMessage =
                     DISK_LABEL(room.winner) \o " wins "
                       \o scoreText(countDisks(room.board)) \o "."]
             ELSE S1
     ELSE IF hasValidMoves(room.board, room.currentDisk)
          THEN [S EXCEPT !.rooms[key].statusMessage =
                  DISK_LABEL(room.currentDisk) \o " to move."]
          ELSE LET alternate == nextDisk(room.currentDisk)
                   scores == countDisks(room.board)
               IN IF ~hasValidMoves(room.board, alternate)
                  THEN LET winner == boardWinner(scores)
                       IN [S EXCEPT
                             !.rooms[key].status = "finished",
                             !.rooms[key].winner = winner,
                             !.rooms[key].statusMessage =
                                IF winner = "draw"
                                THEN "Game over - it's a draw."
                                ELSE DISK_LABEL(winner) \o " controls the board "
                                       \o scoreText(scores) \o ".",
                             !.rooms[key].turnDeadline = NullDeadline]
                  ELSE [S EXCEPT
                          !.rooms[key].currentDisk = alternate,
                          !.rooms[key].statusMessage =
                             DISK_LABEL(room.currentDisk) \o " has no moves. "
                               \o DISK_LABEL(alternate) \o " plays again."]

\* A plausible slip: the status is not recomputed after a move.
ensureRoomTurn_Skipped(S, key) == S

ensureRoomTurn(S, key) ==
  IF S.rooms[key].status = "finished" THEN S ELSE deriveStatusMessage(S, key)

createRoom(key) ==
  [key |-> key,
   board |-> createInitialBoard,
   currentDisk |-> "B",
   lastMove |-> NullMove,
   players |-> [B |-> NullId, W |-> NullId],
   spectators |-> << >>,
   status |-> "waiting",
   statusMessage |-> "Waiting for opponent.",
   winner |-> Null,
   turnDeadline |-> NullDeadline]

\* createRoom() stored under its key: createMatchKey gave key.
roomsSetNew(S, key) ==
  roomsSet([S EXCEPT !.keysDrawn = @ + 1], key, createRoom(key))

\* A plausible slip: the turn deadline is not set when the room starts.
startRoom_NoDeadline(S, key) ==
  [S EXCEPT !.rooms[key].board = createInitialBoard,
            !.rooms[key].currentDisk = "B",
            !.rooms[key].lastMove = NullMove,
            !.rooms[key].status = "playing",
            !.rooms[key].statusMessage = "Black to move first.",
            !.rooms[key].winner = Null]

startRoom(S, key) ==
  refreshTurnDeadline(
    [S EXCEPT !.rooms[key].board = createInitialBoard,
              !.rooms[key].currentDisk = "B",
              !.rooms[key].lastMove = NullMove,
              !.rooms[key].status = "playing",
              !.rooms[key].statusMessage = "Black to move first.",
              !.rooms[key].winner = Null],
    key)

\* A plausible slip: the disk is returned but the seat is not written.
assignPlayer_SeatNotTaken(room, clientId, diskPreference) ==
  [room |-> room, disk |-> diskPreference, thrown |-> FALSE]

\* Returns the room with the seat taken and the disk assigned.  Every caller
\* passes a preference; without one the first open seat is taken, and a full
\* room throws (thrown |-> TRUE).
assignPlayer(room, clientId, diskPreference) ==
  IF diskPreference # Null
  THEN [room |-> [room EXCEPT !.players[diskPreference] = clientId],
        disk |-> diskPreference, thrown |-> FALSE]
  ELSE IF room.players.B = NullId
  THEN [room |-> [room EXCEPT !.players.B = clientId], disk |-> "B", thrown |-> FALSE]
  ELSE IF room.players.W = NullId
  THEN [room |-> [room EXCEPT !.players.W = clientId], disk |-> "W", thrown |-> FALSE]
  ELSE [room |-> room, disk |-> Null, thrown |-> TRUE]

handleTimeout(S, key) ==
  LET room == S.rooms[key]
  IN IF room.status # "playing" \/ room.turnDeadline = NullDeadline THEN S
     ELSE LET loser == room.currentDisk
              winner == nextDisk(loser)
          IN cleanupRoom(
               [S EXCEPT !.rooms[key].status = "finished",
                         !.rooms[key].winner = winner,
                         !.rooms[key].statusMessage =
                            DISK_LABEL(winner) \o " wins by timeout."],
               key, "timeout")

\* The early returns of handleMove: the sender may move in its room.
mayMove(S, id) ==
  LET meta == S.clients[id]
      key == meta.roomKey
  IN IF meta.roomKey = NullKey \/ meta.role # "player" \/ meta.disk = Null THEN FALSE
     ELSE IF key \notin DOMAIN S.rooms THEN FALSE
     ELSE IF S.rooms[key].status # "playing" THEN FALSE
     ELSE IF S.rooms[key].currentDisk # meta.disk THEN FALSE
     ELSE TRUE

handleMove(S, id, index) ==
  LET meta == S.clients[id]
      key == meta.roomKey
  IN IF ~mayMove(S, id) THEN S
     ELSE LET room == S.rooms[key]
              flips == validMovesGet(room.board, room.currentDisk, index)
          IN IF flips = {}
             THEN send(S, id, "error", [message |-> "Invalid move."])
             ELSE LET S1 == [S EXCEPT
                               !.rooms[key].board =
                                  applyMove(room.board, index, room.currentDisk, flips),
                               !.rooms[key].lastMove = index,
                               !.rooms[key].currentDisk = nextDisk(room.currentDisk)]
                      S2 == ensureRoomTurn(S1, key)
                      roomStatus == S2.rooms[key].status
                      S3 == refreshTurnDeadline(S2, key)
                      state == toStatePayload(S3.rooms[key])
                      S4 == broadcastRoom(S3, key, "match:update", [state |-> state])
                  IN IF roomStatus = "finished"
                     THEN cleanupRoom(S4, key, "completed")
                     ELSE S4

\* A plausible slip: the spectator is not recorded.
setAdd_Dropped(spectators, id) == spectators

\* Set.prototype.add on the insertion-ordered spectator set.
setAdd(spectators, id) ==
  IF \E i \in DOMAIN spectators : spectators[i] = id
  THEN spectators
  ELSE Append(spectators, id)

\* A plausible slip: the status of the room is not checked.
handleSpectateJoin_AnyStatus(S, id, key) ==
  IF S.clients[id].status # "idle"
  THEN send(S, id, "error",
            [message |-> "Leave your current session before spectating."])
  ELSE IF key \notin DOMAIN S.rooms
  THEN send(S, id, "error", [message |-> "Match not found."])
  ELSE LET S1 == [S EXCEPT
                    !.clients[id].status = "spectating",
                    !.clients[id].role = "spectator",
                    !.clients[id].roomKey = key,
                    !.clients[id].disk = Null,
                    !.rooms[key].spectators = setAdd(@, id)]
           state == toStatePayload(S1.rooms[key])
           S2 == send(S1, id, "match:start",
                      [youAre |-> "spectator", matchKey |-> key, state |-> state])
       IN broadcastRoom(S2, key, "match:update", [state |-> state])

\* A plausible slip: the turn deadline is restarted when a spectator joins.
handleSpectateJoin_RefreshesDeadline(S, id, key) ==
  IF S.clients[id].status # "idle"
  THEN send(S, id, "error",
            [message |-> "Leave your current session before spectating."])
  ELSE IF key \notin DOMAIN S.rooms
  THEN send(S, id, "error", [message |-> "Match not found."])
  ELSE IF S.rooms[key].status # "playing"
  THEN send(S, id, "error", [message |-> "Match is not currently playing."])
  ELSE LET S1 == [refreshTurnDeadline(S, key) EXCEPT
                    !.clients[id].status = "spectating",
                    !.clients[id].role = "spectator",
                    !.clients[id].roomKey = key,
                    !.clients[id].disk = Null,
                    !.rooms[key].spectators = setAdd(@, id)]
           state == toStatePayload(S1.rooms[key])
           S2 == send(S1, id, "match:start",
                      [youAre |-> "spectator", matchKey |-> key, state |-> state])
       IN broadcastRoom(S2, key, "match:update", [state |-> state])

handleSpectateJoin(S, id, key) ==
  IF S.clients[id].status # "idle"
  THEN send(S, id, "error",
            [message |-> "Leave your current session before spectating."])
  ELSE IF key \notin DOMAIN S.rooms
  THEN send(S, id, "error", [message |-> "Match not found."])
  ELSE IF S.rooms[key].status # "playing"
  THEN send(S, id, "error", [message |-> "Match is not currently playing."])
  ELSE LET S1 == [S EXCEPT
                    !.clients[id].status = "spectating",
                    !.clients[id].role = "spectator",
                    !.clients[id].roomKey = key,
                    !.clients[id].disk = Null,
                    !.rooms[key].spectators = setAdd(@, id)]
           state == toStatePayload(S1.rooms[key])
           S2 == send(S1, id, "match:start",
                      [youAre |-> "spectator", matchKey |-> key, state |-> state])
       IN broadcastRoom(S2, key, "match:update", [state |-> state])

\* A plausible slip: a full room is not recognised.
bothSeatsPlaying_Never(room) == FALSE

\* The test of handleKeyJoin for a room to offer spectating.
bothSeatsPlaying(room) ==
  /\ room.status = "playing"
  /\ room.players.B # NullId
  /\ room.players.W # NullId

\* A plausible slip: the status of the sender is not checked.
handleKeyJoin_NoStatusCheck(S, id, key) ==
  IF key \notin DOMAIN S.rooms
  THEN send(S, id, "error", [message |-> "Match key not found."])
  ELSE IF bothSeatsPlaying(S.rooms[key])
  THEN send(S, id, "prompt:spectate", [matchKey |-> key])
  ELSE IF S.rooms[key].status = "finished"
  THEN send(S, id, "error", [message |-> "Match already finished."])
  ELSE LET assigned == assignPlayer(S.rooms[key], id,
                                    IF S.rooms[key].players.B # NullId THEN "W" ELSE "B")
           disk == assigned.disk
           S1 == [S EXCEPT !.rooms[key] = assigned.room,
                           !.clients[id].status = "playing",
                           !.clients[id].role = "player",
                           !.clients[id].roomKey = key,
                           !.clients[id].disk = disk]
       IN IF S1.rooms[key].players.B # NullId /\ S1.rooms[key].players.W # NullId
          THEN LET S2 == startRoom(S1, key)
                   state == toStatePayload(S2.rooms[key])
                   S3 == sendById(S2, S2.rooms[key].players.B, "match:start",
                                  [youAre |-> "player", yourDisk |-> "B",
                                   state |-> state, matchKey |-> key])
               IN sendById(S3, S2.rooms[key].players.W, "match:start",
                           [youAre |-> "player", yourDisk |-> "W",
                            state |-> state, matchKey |-> key])
          ELSE send([S1 EXCEPT
                       !.rooms[key].statusMessage = "Waiting for opponent to join via key.",
                       !.rooms[key].turnDeadline = NullDeadline],
                    id, "match:waiting", [matchKey |-> key, yourDisk |-> disk])

handleKeyJoin(S, id, key) ==
  IF S.clients[id].status # "idle"
  THEN send(S, id, "error",
            [message |-> "Leave your current session before joining another match."])
  ELSE IF key \notin DOMAIN S.rooms
  THEN send(S, id, "error", [message |-> "Match key not found."])
  ELSE IF bothSeatsPlaying(S.rooms[key])
  THEN send(S, id, "prompt:spectate", [matchKey |-> key])
  ELSE IF S.rooms[key].status = "finished"
  THEN send(S, id, "error", [message |-> "Match already finished."])
  ELSE LET assigned == assignPlayer(S.rooms[key], id,
                                    IF S.rooms[key].players.B # NullId THEN "W" ELSE "B")
           disk == assigned.disk
           S1 == [S EXCEPT !.rooms[key] = assigned.room,
                           !.clients[id].status = "playing",
                           !.clients[id].role = "player",
                           !.clients[id].roomKey = key,
                           !.clients[id].disk = disk]
       IN IF S1.rooms[key].players.B # NullId /\ S1.rooms[key].players.W # NullId
          THEN LET S2 == startRoom(S1, key)
                   state == toStatePayload(S2.rooms[key])
                   S3 == sendById(S2, S2.rooms[key].players.B, "match:start",
                                  [youAre |-> "player", yourDisk |-> "B",
                                   state |-> state, matchKey |-> key])
               IN sendById(S3, S2.rooms[key].players.W, "match:start",
                           [youAre |-> "player", yourDisk |-> "W",
                            state |-> state, matchKey |-> key])
          ELSE send([S1 EXCEPT
                       !.rooms[key].statusMessage = "Waiting for opponent to join via key.",
                       !.rooms[key].turnDeadline = NullDeadline],
                    id, "match:waiting", [matchKey |-> key, yourDisk |-> disk])

\* A plausible slip: the entrants are never reversed.
entrantOrder_NeverReversed(firstId, secondId, reverse) == <<firstId, secondId>>

\* The entrants in seat order, Black first; reverse is the outcome of
\* Math.random() > 0.5.
entrantOrder(firstId, secondId, reverse) ==
  IF reverse THEN <<secondId, firstId>> ELSE <<firstId, secondId>>

\* key is the outcome of createMatchKey in createRoom.
createRandomRoom(S, firstId, secondId, reverse, key) ==
  LET firstLive == firstId \in clientsById(S)
      secondLive == secondId \in clientsById(S)
  IN IF ~firstLive \/ ~secondLive
     THEN LET S1 == IF firstLive
                    THEN [S EXCEPT !.randomQueue = <<firstId>> \o @] ELSE S
          IN IF secondLive
             THEN [S1 EXCEPT !.randomQueue = <<secondId>> \o @] ELSE S1
     ELSE LET entrants == entrantOrder(firstId, secondId, reverse)
              black == entrants[1]
              white == entrants[2]
              S0 == roomsSetNew(S, key)
              S1 == [S0 EXCEPT
                       !.rooms[key].players = [B |-> black, W |-> white],
                       !.clients[black].status = "playing",
                       !.clients[black].role = "player",
                       !.clients[black].roomKey = key,
                       !.clients[black].disk = "B",
                       !.clients[white].status = "playing",
                       !.clients[white].role = "player",
                       !.clients[white].roomKey = key,
                       !.clients[white].disk = "W"]
              S2 == startRoom(S1, key)
              state == toStatePayload(S2.rooms[key])
              S3 == send(S2, black, "queue:status", [searching |-> FALSE])
              S4 == send(S3, black, "match:start",
                         [youAre |-> "player", yourDisk |-> "B",
                          matchKey |-> key, state |-> state])
              S5 == send(S4, white, "queue:status", [searching |-> FALSE])
          IN send(S5, white, "match:start",
                  [youAre |-> "player", yourDisk |-> "W",
                   matchKey |-> key, state |-> state])

\* A plausible slip: the queue is paired only once it holds three entries.
handleRandomJoin_PairsAtThree(S, id, reverse, key) ==
  IF S.clients[id].status # "idle"
  THEN IF S.clients[id].status = "queue"
       THEN send(S, id, "queue:status", [searching |-> TRUE])
       ELSE send(S, id, "error",
                 [message |-> "Leave your current session before re-queueing."])
  ELSE LET S1 == [S EXCEPT !.randomQueue = Append(@, id),
                           !.clients[id].status = "queue"]
           S2 == send(S1, id, "queue:status", [searching |-> TRUE])
       IN IF Len(S2.randomQueue) > 2
          THEN createRandomRoom(
                 [S2 EXCEPT !.randomQueue = SubSeq(@, 3, Len(@))],
                 S2.randomQueue[1], S2.randomQueue[2], reverse, key)
          ELSE S2

\* A plausible slip: the status of the sender is not checked.
handleRandomJoin_NoStatusCheck(S, id, reverse, key) ==
  LET S1 == [S EXCEPT !.randomQueue = Append(@, id),
                      !.clients[id].status = "queue"]
      S2 == send(S1, id, "queue:status", [searching |-> TRUE])
  IN IF Len(S2.randomQueue) >= 2
     THEN createRandomRoom(
            [S2 EXCEPT !.randomQueue = SubSeq(@, 3, Len(@))],
            S2.randomQueue[1], S2.randomQueue[2], reverse, key)
     ELSE S2

handleRandomJoin(S, id, reverse, key) ==
  IF S.clients[id].status # "idle"
  THEN IF S.clients[id].status = "queue"
       THEN send(S, id, "queue:status", [searching |-> TRUE])
       ELSE send(S, id, "error",
                 [message |-> "Leave your current session before re-queueing."])
  ELSE LET S1 == [S EXCEPT !.randomQueue = Append(@, id),
                           !.clients[id].status = "queue"]
           S2 == send(S1, id, "queue:status", [searching |-> TRUE])
       IN IF Len(S2.randomQueue) >= 2
          THEN createRandomRoom(
                 [S2 EXCEPT !.randomQueue = SubSeq(@, 3, Len(@))],
                 S2.randomQueue[1], S2.randomQueue[2], reverse, key)
          ELSE S2

\* A plausible slip: no winner is recorded for a room left while playing.
forfeitWinner_None(disk) == Null

\* A plausible slip: the leaver is recorded as the winner.
forfeitWinner_Leaver(disk) == disk

\* The winner handleLeave records for a room left while playing.
forfeitWinner(disk) == IF disk # Null THEN nextDisk(disk) ELSE Null

\* A plausible slip: a leave outside any room or queue is rejected.
leaveOutsideRoom_Rejected(S, id) ==
  send([S EXCEPT !.clients[id].status = "idle",
                 !.clients[id].role = Null,
                 !.clients[id].disk = Null],
       id, "error", [message |-> "Not in a session."])

\* The branch of handleLeave for a meta that has no room key.
leaveOutsideRoom(S, id) ==
  [S EXCEPT !.clients[id].status = "idle",
            !.clients[id].role = Null,
            !.clients[id].disk = Null]

handleLeave(S, id) ==
  LET meta == S.clients[id]
      key == meta.roomKey
  IN IF meta.status = "queue"
     THEN send([removeFromQueue(S, id) EXCEPT !.clients[id].status = "idle"],
               id, "queue:status", [searching |-> FALSE])
     ELSE IF meta.roomKey = NullKey
     THEN leaveOutsideRoom(S, id)
     ELSE IF key \notin DOMAIN S.rooms
     THEN [S EXCEPT !.clients[id].status = "idle",
                    !.clients[id].role = Null,
                    !.clients[id].disk = Null,
                    !.clients[id].roomKey = NullKey]
     ELSE IF meta.role = "spectator"
     THEN LET S1 == [S EXCEPT !.rooms[key].spectators =
                                 SelectSeq(@, LAMBDA x : x # id)]
              state == toStatePayload(S1.rooms[key])
              S2 == broadcastRoom(S1, key, "match:update", [state |-> state])
          IN [S2 EXCEPT !.clients[id].status = "idle",
                        !.clients[id].role = Null,
                        !.clients[id].roomKey = NullKey]
     ELSE LET disk == meta.disk
              S1 == IF disk # Null
                    THEN [S EXCEPT !.rooms[key].players[disk] = NullId]
                    ELSE S
              S2 == IF S1.rooms[key].status = "playing"
                    THEN cleanupRoom(
                           [S1 EXCEPT
                              !.rooms[key].status = "finished",
                              !.rooms[key].winner = forfeitWinner(disk),
                              !.rooms[key].statusMessage = "Opponent left the match."],
                           key, "opponent-left")
                    ELSE cleanupRoom(
                           [S1 EXCEPT !.rooms[key].statusMessage = "Host left the lobby."],
                           key, "host-left")
          IN [S2 EXCEPT !.clients[id].status = "idle",
                        !.clients[id].role = Null,
                        !.clients[id].roomKey = NullKey,
                        !.clients[id].disk = Null]

rehydrateSession(S, id) ==
  LET meta == S.clients[id]
  IN IF meta.socket # "OPEN" THEN S
     ELSE IF meta.status = "queue"
     THEN send(S, id, "queue:status", [searching |-> TRUE])
     ELSE IF meta.status = "waiting" /\ meta.roomKey # NullKey /\ meta.disk # Null
     THEN send(S, id, "match:waiting",
               [matchKey |-> meta.roomKey, yourDisk |-> meta.disk])
     ELSE IF meta.roomKey = NullKey THEN S
     ELSE IF meta.roomKey \notin DOMAIN S.rooms
     THEN [S EXCEPT !.clients[id].status = "idle",
                    !.clients[id].role = Null,
                    !.clients[id].disk = Null,
                    !.clients[id].roomKey = NullKey]
     ELSE send(S, id, "match:start",
               [youAre |-> IF meta.role = "spectator" THEN "spectator" ELSE "player",
                yourDisk |-> meta.disk,
                matchKey |-> meta.roomKey,
                state |-> toStatePayload(S.rooms[meta.roomKey])])

\* case 'key:create' of the message switch; key is the outcome of
\* createMatchKey in createRoom.
handleKeyCreate(S, id, key) ==
  IF S.clients[id].status # "idle"
  THEN send(S, id, "error", [message |-> "Already in a session."])
  ELSE LET S0 == roomsSetNew(S, key)
           assigned == assignPlayer(S0.rooms[key], id, "B")
           S1 == [S0 EXCEPT
                    !.rooms[key] = assigned.room,
                    !.clients[id].status = "waiting",
                    !.clients[id].role = "player",
                    !.clients[id].roomKey = key,
                    !.clients[id].disk = assigned.disk]
       IN send(S1, id, "match:waiting", [matchKey |-> key, yourDisk |-> assigned.disk])

\* The paths of the message handler that reach no case body: a payload that
\* does not parse, an envelope without type, an unknown type, and a
\* key:join, spectate:join or move lacking its field.
MessageShapes ==
  {"unparseable", "no-type", "unknown-type",
   "key:join-no-matchKey", "spectate:join-no-matchKey", "move-no-index"}

\* `${n}` of an integer n: its decimal digits.
RECURSIVE decimal(_)
decimal(n) ==
  LET digits == <<"0", "1", "2", "3", "4", "5", "6", "7", "8", "9">>
  IN IF n < 0 THEN "-" \o decimal(-n)
     ELSE IF n < 10 THEN digits[n + 1]
     ELSE decimal(n \div 10) \o digits[(n % 10) + 1]

\* The types of no case of the switch that clients send, as `${type}` gives
\* them: two strings and a number.
UnknownTypes == {"dance", "MOVE"} \cup { decimal(n) : n \in {5} }

\* type is the text of the type received, read by the default case only.
handleBadMessage(S, id, shape, type) ==
  IF shape = "unparseable"
  THEN send(S, id, "error", [message |-> "Malformed message."])
  ELSE IF shape = "no-type" THEN S
  ELSE IF shape = "unknown-type"
  THEN send(S, id, "error", [message |-> "Unknown message type: " \o type])
  ELSE IF shape = "move-no-index"
  THEN send(S, id, "error", [message |-> "index is required."])
  ELSE send(S, id, "error", [message |-> "matchKey is required."])

\* The body of socket.on('close'), for any socket the meta was bound to.
onClose(S, id) ==
  IF S.clients[id].disconnectTimer THEN S
  ELSE [S EXCEPT !.clients[id].disconnectTimer = TRUE]

\* The callback of the disconnect timer.
onDisconnectTimer(S, id) ==
  LET S1 == [S EXCEPT !.clients[id].disconnectTimer = FALSE]
      S2 == handleLeave(S1, id)
  IN [S2 EXCEPT !.clients[id].registered = FALSE]

newMeta(id) ==
  [id |-> id, registered |-> TRUE, socket |-> "OPEN", stale |-> 0,
   status |-> "idle", roomKey |-> NullKey, role |-> Null, disk |-> Null,
   disconnectTimer |-> FALSE]

\* The rebinding of a live meta to the new socket: the old socket is
\* terminated, and unless its close event has been delivered already it is
\* one more socket whose close event is to come; the pending disconnect
\* timer is cleared.
rebind(meta) ==
  [meta EXCEPT !.stale = IF meta.socket # "CLOSED" THEN @ + 1 ELSE @,
               !.socket = "OPEN",
               !.disconnectTimer = FALSE]

\* wss.on('connection') up to rehydrateSession.
onConnection(S, requestedId) ==
  LET known == requestedId # NullId /\ requestedId \in clientsById(S)
      id == IF known THEN requestedId ELSE Cardinality(DOMAIN S.clients) + 1
      S1 == IF known
            THEN [S EXCEPT !.clients[id] = rebind(@)]
            ELSE [S EXCEPT
                    !.clients = [c \in (DOMAIN S.clients) \cup {id} |->
                                   IF c = id THEN newMeta(id) ELSE S.clients[c]]]
      S2 == send(S1, id, "hello",
                 [clientId |-> id, message |-> "Connected to Othello match server."])
  IN rehydrateSession(S2, id)

\* expiredRooms.forEach(handleTimeout).
RECURSIVE timeoutAll(_, _)
timeoutAll(S, expiredRooms) ==
  IF expiredRooms = << >> THEN S
  ELSE timeoutAll(handleTimeout(S, Head(expiredRooms)), Tail(expiredRooms))

\* A plausible slip: every playing room is taken as expired.
sweep_AllPlaying(S) ==
  LET expired(k) == /\ S.rooms[k].status = "playing"
                    /\ S.rooms[k].turnDeadline # NullDeadline
  IN timeoutAll(S, SelectSeq(S.roomOrder, expired))

\* The sweep callback: the expired rooms in the order of rooms.values().
sweep(S) ==
  LET expired(k) == /\ S.rooms[k].status = "playing"
                    /\ S.rooms[k].turnDeadline # NullDeadline
                    /\ S.rooms[k].turnDeadline <= now
  IN timeoutAll(S, SelectSeq(S.roomOrder, expired))

(***************************************************************************)
(* Inputs                                                                  *)
(***************************************************************************)
\* The games the players follow: a win of Black in 13 moves in which White
\* has to pass twice, and a win of White in 13 moves in which Black has to
\* pass once.
PlayBook ==
  << <<19, 18, 17, 34, 26, 21, 42, 10, 2, 49, 37, 56, 14>>,
     <<19, 20, 13, 34, 37, 6, 12, 29, 38, 39, 41, 11, 48>> >>

\* A game of 60 moves that fills the board, 32 cells each.
DrawGame ==
  <<19, 18, 44, 45, 46, 20, 37, 43, 34, 25, 51, 38, 26, 50, 12, 47, 39, 4, 33, 58,
    53, 41, 40, 11, 59, 29, 16, 55, 22, 52, 31, 54, 13, 42, 2, 14, 15, 21, 57, 17,
    61, 3, 63, 23, 10, 6, 24, 7, 30, 32, 9, 1, 48, 49, 0, 8, 5, 56, 62, 60>>

\* The number of moves after which the clients are taken to follow DrawGame.
DrawTail == 57

movesPlayed(board) == Cardinality({i \in DOMAIN board : board[i] # Null}) - 4

\* The indices a client submits: the next move of each game of the play
\* book for the number of moves played on its board, among the first
\* OpeningPlies and the last TailPlies moves of the game, and two bad
\* indices: a cell that is occupied on every board, and an index outside
\* the board.
MoveInputs(id) ==
  LET key == clients[id].roomKey
      occupiedIndex == toIndex(BOARD_SIZE \div 2, BOARD_SIZE \div 2)
      outsideIndex == BOARD_SIZE * BOARD_SIZE
      scripted ==
        IF key \in DOMAIN rooms
        THEN LET n == movesPlayed(rooms[key].board)
                 followed == { h \in DOMAIN PlayBook :
                                 /\ Len(PlayBook[h]) > n
                                 /\ \/ n < OpeningPlies
                                    \/ n >= Len(PlayBook[h]) - TailPlies }
             IN { PlayBook[g][n + 1] : g \in followed }
                  \cup (IF DrawTail <= n /\ n < Len(DrawGame) THEN {DrawGame[n + 1]} ELSE {})
        ELSE {}
  IN scripted \cup {occupiedIndex, outsideIndex}

\* The match keys a client submits: the keys of the rooms of the index and
\* the keys that may be given.
KeyInputs == MatchKeys \cup DOMAIN rooms

(***************************************************************************)
(* Actions                                                                 *)
(***************************************************************************)
\* The match of the benchmark script before playHeadlessMatch is called; the
\* server never touches it.
BenchIdle ==
  [board |-> createInitialBoard, currentDisk |-> "B", passes |-> 0,
   opening |-> 0, black |-> "normal", white |-> "normal",
   done |-> FALSE, failed |-> FALSE, winner |-> Null]

\* The state becomes that of the reaction S of the running process; no room
\* is created beyond the bound.
Commit(S) ==
  /\ running
  /\ running' = S.running
  /\ S.keysDrawn <= (IF keysDrawn > MaxRooms THEN keysDrawn ELSE MaxRooms)
  /\ keysDrawn' = S.keysDrawn
  /\ clients' = S.clients
  /\ rooms' = S.rooms
  /\ roomOrder' = S.roomOrder
  /\ randomQueue' = S.randomQueue
  /\ UNCHANGED <<now, bench>>

Connected == { id \in DOMAIN clients : clients[id].socket = "OPEN" }

\* A connection whose request target parses, presenting requestedId
\* (NullId: none), or one whose request target new URL rejects: the
\* exception leaves the listener and ends the process.  A connection that
\* supersedes an OPEN socket is a net event.
Supersedes(requestedId) ==
  /\ requestedId \in clientsById(Cur)
  /\ clients[requestedId].socket = "OPEN"

Connect(requestedId, parses) ==
  IF parses
  THEN /\ Supersedes(requestedId) => netEvents < MaxNetEvents
       \* the connection leaves at most MaxStale sockets behind whose close
       \* event is to come
       /\ ( /\ requestedId \in clientsById(Cur)
            /\ clients[requestedId].socket # "CLOSED" )
            => clients[requestedId].stale < MaxStale
       /\ requestedId \notin clientsById(Cur)
            => Cardinality(DOMAIN clients) < MaxSessions
       /\ netEvents' = IF Supersedes(requestedId) THEN netEvents + 1 ELSE netEvents
       /\ Commit(onConnection(Cur, requestedId))
  ELSE /\ Commit(processExit(Cur))
       /\ UNCHANGED netEvents

RandomJoin(id, reverse, key) ==
  /\ id \in Connected
  /\ Commit(handleRandomJoin(Cur, id, reverse, key))
  /\ UNCHANGED netEvents

RandomCancel(id) ==
  /\ id \in Connected
  /\ Commit(handleLeave(Cur, id))
  /\ UNCHANGED netEvents

KeyCreate(id, key) ==
  /\ id \in Connected
  /\ Commit(handleKeyCreate(Cur, id, key))
  /\ UNCHANGED netEvents

KeyJoin(id, matchKey) ==
  /\ id \in Connected
  /\ Commit(handleKeyJoin(Cur, id, matchKey))
  /\ UNCHANGED netEvents

SpectateJoin(id, matchKey) ==
  /\ id \in Connected
  /\ Commit(handleSpectateJoin(Cur, id, matchKey))
  /\ UNCHANGED netEvents

Move(id, index) ==
  /\ id \in Connected
  /\ Commit(handleMove(Cur, id, index))
  /\ UNCHANGED netEvents

Leave(id) ==
  /\ id \in Connected
  /\ Commit(handleLeave(Cur, id))
  /\ UNCHANGED netEvents

BadMessage(id, shape, type) ==
  /\ id \in Connected
  /\ Commit(handleBadMessage(Cur, id, shape, type))
  /\ UNCHANGED netEvents

\* The transport of the bound socket closes: readyState leaves OPEN.  When a
\* close frame arrives or the stream fails no callback of the server runs,
\* and the close event is delivered in a later turn of the event loop.  When
\* a frame breaks the protocol the socket emits 'error' as well; the server
\* registers listeners for 'message' and 'close' only, so the event is
\* thrown and ends the process.
transportClose(S, id, emitsError) ==
  IF emitsError THEN processExit(S)
  ELSE [S EXCEPT !.clients[id].socket = "CLOSING"]

\* A close that leaves the process running is a net event.
TransportClose(id, emitsError) ==
  /\ id \in Connected
  /\ ~emitsError => netEvents < MaxNetEvents
  /\ netEvents' = IF emitsError THEN netEvents ELSE netEvents + 1
  /\ Commit(transportClose(Cur, id, emitsError))

\* The close event of the bound socket is delivered.
CloseEvent(id) ==
  /\ id \in DOMAIN clients
  /\ clients[id].socket = "CLOSING"
  /\ Commit(onClose([Cur EXCEPT !.clients[id].socket = "CLOSED"], id))
  /\ UNCHANGED netEvents

\* The close event of a socket terminated by a rebind is delivered.
StaleClose(id) ==
  /\ id \in DOMAIN clients
  /\ clients[id].stale > 0
  /\ Commit(onClose([Cur EXCEPT !.clients[id].stale = @ - 1], id))
  /\ UNCHANGED netEvents

DisconnectTimer(id) ==
  /\ id \in DOMAIN clients
  /\ clients[id].disconnectTimer
  /\ Commit(onDisconnectTimer(Cur, id))
  /\ UNCHANGED netEvents

Sweep ==
  /\ Commit(sweep(Cur))
  /\ UNCHANGED netEvents

Tick ==
  /\ now < MaxTime
  /\ now' = now + 1
  /\ UNCHANGED <<clients, rooms, roomOrder, randomQueue, keysDrawn, netEvents, bench,
                 running>>

Init ==
  /\ clients = << >>
  /\ rooms = << >>
  /\ randomQueue = << >>
  /\ roomOrder = << >>
  /\ keysDrawn = 0
  /\ now = 1
  /\ netEvents = 0
  /\ bench = BenchIdle
  /\ running = TRUE

Next ==
  \/ \E requestedId \in {NullId} \cup SessionIds, parses \in BOOLEAN :
       Connect(requestedId, parses)
  \/ \E id \in SessionIds, reverse \in BOOLEAN, key \in MatchKeys :
       RandomJoin(id, reverse, key)
  \/ \E id \in SessionIds : RandomCancel(id)
  \/ \E id \in SessionIds, key \in MatchKeys : KeyCreate(id, key)
  \/ \E id \in SessionIds, matchKey \in KeyInputs : KeyJoin(id, matchKey)
  \/ \E id \in SessionIds, matchKey \in KeyInputs : SpectateJoin(id, matchKey)
  \/ \E id \in Connected : \E index \in MoveInputs(id) : Move(id, index)
  \/ \E id \in SessionIds : Leave(id)
  \/ \E id \in SessionIds, shape \in MessageShapes :
       \E type \in IF shape = "unknown-type" THEN UnknownTypes ELSE {""} :
         BadMessage(id, shape, type)
  \/ \E id \in SessionIds, emitsError \in BOOLEAN : TransportClose(id, emitsError)
  \/ \E id \in SessionIds : CloseEvent(id)
  \/ \E id \in SessionIds : StaleClose(id)
  \/ \E id \in SessionIds : DisconnectTimer(id)
  \/ Sweep
  \/ Tick

Spec == Init /\ [][Next]_vars

\* The disconnect timer of id is pending: DisconnectTimer(id) is enabled.
timerPending(id) == id \in DOMAIN clients /\ clients[id].disconnectTimer

\* The sweep has a room to resolve: Sweep is enabled and changes the state.
sweepDue ==
  \E k \in DOMAIN rooms :
    /\ rooms[k].status = "playing"
    /\ rooms[k].turnDeadline # NullDeadline
    /\ rooms[k].turnDeadline <= now

\* The close event of the bound socket of id is to come: CloseEvent(id) is
\* enabled.
closePending(id) == id \in DOMAIN clients /\ clients[id].socket = "CLOSING"

\* A timer that is armed fires unless it is cancelled, the sweep interval
\* keeps running (setTimeout and setInterval of the event loop), and a socket
\* that is closing emits its close event: weak fairness of DisconnectTimer(id),
\* of Sweep and of CloseEvent(id), WF_vars(A) written out as
\* []<>~ENABLED <<A>>_vars \/ []<><<A>>_vars with the enabling condition
\* given explicitly.
Fairness ==
  /\ \A id \in SessionIds :
       []<>(~timerPending(id)) \/ []<><<DisconnectTimer(id)>>_vars
  /\ \A id \in SessionIds :
       []<>(~closePending(id)) \/ []<><<CloseEvent(id)>>_vars
  /\ []<>(~sweepDue) \/ []<><<Sweep>>_vars

LiveSpec == Spec /\ Fairness

\* The server with no session, room or queue entry.
Started ==
  [clients |-> << >>, rooms |-> << >>, roomOrder |-> << >>,
   randomQueue |-> << >>, keysDrawn |-> 0, outbox |-> << >>, running |-> TRUE]

\* Two clients have connected and have been paired by the random queue in
\* room 1.
Paired(reverse) ==
  handleRandomJoin(
    handleRandomJoin(onConnection(onConnection(Started, NullId), NullId),
                     1, reverse, 1),
    2, reverse, 1)

\* The server after the players of room 1 of from have sent moves i .. n of
\* game, each from the player on move.
RECURSIVE PlayedFrom(_, _, _, _)
PlayedFrom(from, game, i, n) ==
  LET S == from
  IN IF i > n \/ 1 \notin DOMAIN S.rooms THEN S
     ELSE LET room == S.rooms[1]
          IN PlayedFrom(handleMove(S, room.players[room.currentDisk], game[i]),
                        game, i + 1, n)

\* The server after the paired players have sent the first n moves of game.
Played(game, n, reverse) == PlayedFrom(Paired(reverse), game, 1, n)

\* The games in progress the end-game specification starts from.
MidGames ==
  { [game |-> DrawGame, moves |-> DrawTail],
    [game |-> PlayBook[1], moves |-> Len(PlayBook[1]) - TailPlies],
    [game |-> PlayBook[2], moves |-> Len(PlayBook[2]) - TailPlies] }

\* The states the server is in after a pairing and the moves of a game in
\* progress, all events handled at time 1.
GameInit ==
  /\ now = 1
  /\ netEvents = 0
  /\ bench = BenchIdle
  /\ running = TRUE
  /\ \E g \in MidGames : \E reverse \in BOOLEAN :
       LET S == Played(g.game, g.moves, reverse)
       IN /\ clients = S.clients
          /\ rooms = S.rooms
          /\ randomQueue = S.randomQueue
          /\ roomOrder = S.roomOrder
          /\ keysDrawn = S.keysDrawn

SpecGame == GameInit /\ [][Next]_vars

\* Two sessions each host a waiting room, session 1 room 1 and session 2
\* room 2.
TwoLobbies ==
  handleKeyCreate(
    handleKeyCreate(onConnection(onConnection(Started, NullId), NullId), 1, 1),
    2, 2)

\* A random pair plays in room 1 and a third session hosts room 2.
PairAndLobby(reverse) ==
  handleKeyCreate(onConnection(Paired(reverse), NullId), 3, 2)

\* The states the server is in with two rooms in the index, all events
\* handled at time 1.
RoomsInit ==
  /\ now = 1
  /\ netEvents = 0
  /\ bench = BenchIdle
  /\ running = TRUE
  /\ \E S \in {TwoLobbies} \cup { PairAndLobby(reverse) : reverse \in BOOLEAN } :
       /\ clients = S.clients
       /\ rooms = S.rooms
       /\ randomQueue = S.randomQueue
       /\ roomOrder = S.roomOrder
       /\ keysDrawn = S.keysDrawn

SpecRooms == RoomsInit /\ [][Next]_vars

\* The numbers of moves of DrawGame after which the rule engine is explored,
\* and the positions explored: those with fewer than MaxPlies further moves.
RuleStarts == {0, 20, 40}

\* Any cell of the board submitted as a move by a seated client.
FreeMove(id, index) ==
  /\ clients[id].roomKey \in DOMAIN rooms
  /\ movesPlayed(rooms[clients[id].roomKey].board)
       \in UNION { s .. (s + MaxPlies - 1) : s \in RuleStarts }
  /\ Move(id, index)

\* The states the server is in after a pairing and the moves of DrawGame up
\* to a start of the exploration.
RulesInit ==
  /\ now = 1
  /\ netEvents = 0
  /\ bench = BenchIdle
  /\ running = TRUE
  /\ \E n \in RuleStarts :
       LET S == Played(DrawGame, n, FALSE)
       IN /\ clients = S.clients
          /\ rooms = S.rooms
          /\ randomQueue = S.randomQueue
          /\ roomOrder = S.roomOrder
          /\ keysDrawn = S.keysDrawn

RulesNext == \E id \in Connected : \E index \in Cells : FreeMove(id, index)

SpecRules == RulesInit /\ [][RulesNext]_vars

\* The states the server is in after a pairing and the first MatchStart moves
\* of DrawGame.
MatchInit ==
  /\ now = 1
  /\ netEvents = 0
  /\ bench = BenchIdle
  /\ running = TRUE
  /\ \E reverse \in BOOLEAN :
       LET S == Played(DrawGame, MatchStart, reverse)
       IN /\ clients = S.clients
          /\ rooms = S.rooms
          /\ randomQueue = S.randomQueue
          /\ roomOrder = S.roomOrder
          /\ keysDrawn = S.keysDrawn

\* A match played to its end: the only events are move messages, with any
\* cell as index.
MatchNext == \E id \in Connected : \E index \in Cells : Move(id, index)

\* The player on move always eventually moves: while a room is in the index,
\* move messages keep being applied.
MatchFairness == []<>(DOMAIN rooms = {}) \/ []<><<MatchNext>>_vars

SpecMatch == MatchInit /\ [][MatchNext]_vars /\ MatchFairness

(***************************************************************************)
(* scripts/cpuBench.ts: playHeadlessMatch                                  *)
(***************************************************************************)
\* The position of the match after the first BenchOpening random plies, taken
\* to have followed DrawGame.
BenchPosition == Played(DrawGame, BenchOpening, FALSE).rooms[1]

ORDERED_DIFFICULTIES == <<"easy", "normal", "hard", "saikyo">>

\* The scenarios of the script (Black, White): every two different
\* difficulties, in both orders.
BenchScenarios ==
  UNION { { <<ORDERED_DIFFICULTIES[i], ORDERED_DIFFICULTIES[j]>>,
            <<ORDERED_DIFFICULTIES[j], ORDERED_DIFFICULTIES[i]>> } :
          <<i, j>> \in { p \in (DOMAIN ORDERED_DIFFICULTIES) \X (DOMAIN ORDERED_DIFFICULTIES) :
                          p[1] < p[2] } }

\* A match about to play its last opening plies (at most MaxRandomPlies) at
\* random.
BenchInit ==
  /\ clients = << >>
  /\ rooms = << >>
  /\ randomQueue = << >>
  /\ roomOrder = << >>
  /\ keysDrawn = 0
  /\ now = 1
  /\ netEvents = 0
  /\ running = TRUE
  /\ \E opening \in 0 .. MaxRandomPlies : \E scenario \in BenchScenarios :
         bench = [board |-> BenchPosition.board,
                  currentDisk |-> BenchPosition.currentDisk,
                  passes |-> 0, opening |-> opening,
                  black |-> scenario[1], white |-> scenario[2],
                  done |-> FALSE, failed |-> FALSE, winner |-> Null]

\* The turn goes to the other disk without a move.  In the opening loop a
\* second pass in a row returns a draw; the main loop ends on it and the
\* scores decide.
benchPass(b) ==
  LET passes == b.passes + 1
      scores == countDisks(b.board)
  IN IF b.opening > 0
     THEN IF passes >= 2
          THEN [b EXCEPT !.passes = passes, !.done = TRUE, !.winner = "draw"]
          ELSE [b EXCEPT !.passes = IF b.opening = 1 THEN 0 ELSE passes,
                         !.currentDisk = nextDisk(b.currentDisk),
                         !.opening = @ - 1]
     ELSE IF passes >= 2
          THEN [b EXCEPT !.passes = passes,
                         !.currentDisk = nextDisk(b.currentDisk),
                         !.done = TRUE,
                         !.winner = boardWinner(scores)]
          ELSE [b EXCEPT !.passes = passes,
                         !.currentDisk = nextDisk(b.currentDisk)]

\* The move is applied and the turn goes to the other disk.
benchApply(b, move, flips) ==
  [b EXCEPT !.board = applyMove(b.board, move, b.currentDisk, flips),
            !.currentDisk = nextDisk(b.currentDisk),
            !.passes = 0,
            !.opening = IF @ > 0 THEN @ - 1 ELSE @]

\* One iteration of the opening loop: a legal move picked at random.
BenchRandomPly ==
  /\ ~bench.done /\ ~bench.failed
  /\ bench.opening > 0
  /\ LET moves == computeValidMoves(bench.board, bench.currentDisk)
     IN IF DOMAIN moves = {}
        THEN bench' = benchPass(bench)
        ELSE \E move \in DOMAIN moves : bench' = benchApply(bench, move, moves[move])
  /\ UNCHANGED <<clients, rooms, roomOrder, randomQueue, keysDrawn, now, netEvents,
                 running>>

\* The match after one iteration of the main loop, given the legal moves and
\* the answer of chooseCpuMove: the move it gives, or the first key of the
\* map when it gives none; the script throws when the chosen move has no
\* flips.
benchCpuPly(b, validMoves, cpuResult) ==
  LET moves == validMoves
      result == cpuResult
      chosenMove == IF result.move # NullMove THEN result.move
                    ELSE CHOOSE m \in DOMAIN moves : \A o \in DOMAIN moves : m <= o
  IN IF DOMAIN moves = {} THEN benchPass(b)
     ELSE IF chosenMove \notin DOMAIN moves THEN [b EXCEPT !.failed = TRUE]
     ELSE benchApply(b, chosenMove, moves[chosenMove])

\* One iteration of the main loop, with chooseCpuMove asked at the
\* difficulty of the disk on move.
BenchCpuPly ==
  /\ ~bench.done /\ ~bench.failed
  /\ bench.opening = 0
  /\ bench' = benchCpuPly(bench, computeValidMoves(bench.board, bench.currentDisk),
                          chooseCpuMove(bench.board, bench.currentDisk,
                                        IF bench.currentDisk = "B" THEN bench.black
                                        ELSE bench.white))
  /\ UNCHANGED <<clients, rooms, roomOrder, randomQueue, keysDrawn, now, netEvents,
                 running>>

BenchNext == BenchRandomPly \/ BenchCpuPly

SpecCpu == BenchInit /\ [][BenchNext]_vars

(***************************************************************************)
(* Vocabulary of the claims.  A session is a meta the registry maps; a     *)
(* handler's outbox holds what one event reaction sent.                    *)
(***************************************************************************)
Sessions == clientsById(Cur)

\* id sits on the active disk of room k, and k is playing.
OnMove(id, k) ==
  /\ k \in DOMAIN rooms
  /\ rooms[k].status = "playing"
  /\ rooms[k].players[rooms[k].currentDisk] = id

\* index is a key of legalMoves(board, activeDisk) of room k.
LegalIn(k, index) ==
  validMovesGet(rooms[k].board, rooms[k].currentDisk, index) # {}

Permitted(id, index) == \E k \in DOMAIN rooms : OnMove(id, k) /\ LegalIn(k, index)

RoomPosition(room) == <<room.board, room.currentDisk, room.lastMove>>

\* The board a legal move at index produces in room k.
BoardAfter(k, index) ==
  applyMove(rooms[k].board, index, rooms[k].currentDisk,
            validMovesGet(rooms[k].board, rooms[k].currentDisk, index))

CanMove(board, disk) == hasValidMoves(board, disk)

\* The sessions bound to a room that have an open transport.
Recipients(room) ==
  { id \in Sessions :
      /\ clients[id].socket = "OPEN"
      /\ \/ id \in {room.players.B, room.players.W}
         \/ \E i \in DOMAIN room.spectators : room.spectators[i] = id }

Received(S, id, type) ==
  { S.outbox[i].payload : i \in { j \in DOMAIN S.outbox :
                                    S.outbox[j].to = id /\ S.outbox[j].type = type } }

(***************************************************************************)
(* C1: a move message that does not come from the session seated on the    *)
(* active disk of a playing room with an index that is a key of            *)
(* legalMoves(board, activeDisk) leaves every room, session and the queue  *)
(* unchanged; and the board, active disk and last move of a room change    *)
(* in no step other than such a move.                                      *)
(***************************************************************************)
C1_RejectedMoveKeepsState ==
  \A id \in Connected : \A index \in MoveInputs(id) :
    ~Permitted(id, index) =>
      LET S == handleMove(Cur, id, index)
      IN S.rooms = rooms /\ S.clients = clients /\ S.randomQueue = randomQueue

C1_PositionChangesByPermittedMove ==
  \A k \in (DOMAIN rooms) \cap (DOMAIN rooms') :
    RoomPosition(rooms'[k]) # RoomPosition(rooms[k]) =>
      \E id \in Connected : \E index \in MoveInputs(id) :
        Permitted(id, index) /\ rooms' = handleMove(Cur, id, index).rooms

C1_MoveGuard ==
  [](C1_RejectedMoveKeepsState) /\ [][C1_PositionChangesByPermittedMove]_vars

(***************************************************************************)
(* C2: a legal move applied in a playing room hands the turn to the        *)
(* opponent when the opponent can move on the new board; when only the     *)
(* mover can, the mover stays on move and the room stays playing; in both  *)
(* cases the turn deadline is now + the configured timeout.                *)
(***************************************************************************)
C2_TurnAfterMove ==
  \A id \in Connected : \A index \in MoveInputs(id) : \A k \in DOMAIN rooms :
    (OnMove(id, k) /\ LegalIn(k, index)) =>
      LET mover == rooms[k].currentDisk
          opponent == nextDisk(mover)
          newBoard == BoardAfter(k, index)
          S == handleMove(Cur, id, index)
      IN (CanMove(newBoard, opponent) \/ CanMove(newBoard, mover)) =>
           /\ k \in DOMAIN S.rooms
           /\ S.rooms[k].status = "playing"
           /\ S.rooms[k].board = newBoard
           /\ S.rooms[k].lastMove = index
           /\ S.rooms[k].currentDisk =
                IF CanMove(newBoard, opponent) THEN opponent ELSE mover
           /\ S.rooms[k].turnDeadline = now + TURN_TIMEOUT_MS

\* A room after an automatic pass: the disk that moved last is on move again.
C2_Witness ==
  \E k \in DOMAIN rooms :
    /\ rooms[k].status = "playing"
    /\ rooms[k].lastMove # NullMove
    /\ rooms[k].board[rooms[k].lastMove] = rooms[k].currentDisk
    /\ ~CanMove(rooms[k].board, nextDisk(rooms[k].currentDisk))
    /\ rooms[k].turnDeadline = now + TURN_TIMEOUT_MS

(***************************************************************************)
(* C3: when a legal move leaves neither disk a legal move, the room is     *)
(* finished with the disk holding strictly more cells as winner, or draw   *)
(* on equal counts, its deadline is cleared, the room leaves the index,    *)
(* and every message about the room sent to its recipients carries that    *)
(* final state.                                                            *)
(***************************************************************************)
C3_FinalState(k, index) ==
  LET newBoard == BoardAfter(k, index)
      scores == countDisks(newBoard)
  IN [matchKey |-> k,
      board |-> newBoard,
      lastMove |-> index,
      scores |-> scores,
      spectators |-> Len(rooms[k].spectators),
      winner |-> IF scores.B > scores.W THEN "B"
                 ELSE IF scores.W > scores.B THEN "W" ELSE "draw",
      turnDeadline |-> NullDeadline]

C3_Agrees(state, final) ==
  /\ state.matchKey = final.matchKey
  /\ state.board = final.board
  /\ state.lastMove = final.lastMove
  /\ state.scores = final.scores
  /\ state.spectators = final.spectators
  /\ state.winner = final.winner
  /\ state.turnDeadline = final.turnDeadline

C3_Ends(id, index, k) ==
  /\ OnMove(id, k)
  /\ LegalIn(k, index)
  /\ ~CanMove(BoardAfter(k, index), "B")
  /\ ~CanMove(BoardAfter(k, index), "W")

C3_GameOver ==
  \A id \in Connected : \A index \in MoveInputs(id) : \A k \in DOMAIN rooms :
    C3_Ends(id, index, k) =>
      LET S == handleMove(Cur, id, index)
          final == C3_FinalState(k, index)
      IN /\ k \notin DOMAIN S.rooms
         /\ \A r \in Recipients(rooms[k]) :
              /\ Received(S, r, "match:end") # {}
              /\ \A p \in Received(S, r, "match:end") :
                   p.reason = "completed" /\ C3_Agrees(p.state, final)
              /\ \A p \in Received(S, r, "match:update") : C3_Agrees(p.state, final)
         /\ \A i \in DOMAIN S.outbox : S.outbox[i].to \in Recipients(rooms[k])

\* A connected player holds the move that ends the game with 32 cells each,
\* the opponent is connected too, and the move ends the room as a draw.
C3_Witness ==
  \E id \in Connected : \E index \in MoveInputs(id) : \E k \in DOMAIN rooms :
    /\ C3_Ends(id, index, k)
    /\ Cardinality(Recipients(rooms[k])) >= 2
    /\ \E p \in Received(handleMove(Cur, id, index), id, "match:end") :
         p.state.winner = "draw" /\ p.state.scores = [B |-> 32, W |-> 32]

(***************************************************************************)
(* C4: a queue-join of an idle session is answered first with              *)
(* queue-status{searching:true}; when the queue already holds one other    *)
(* session, the same reaction creates a playing room seating the two on    *)
(* opposite disks, empties the queue and sends room-start for that room to *)
(* each of the two whose transport is open; either entrant gets either     *)
(* disk, depending on the random draw and not on the queue order.          *)
(***************************************************************************)
C4_Queued(a, b) ==
  /\ a # b
  /\ randomQueue = <<a>>
  /\ clients[a].status = "queue"
  /\ b \in Connected
  /\ clients[b].status = "idle"

C4_RandomPairing ==
  /\ \A a \in Sessions \cap Connected : \A reverse \in BOOLEAN :
     \A k \in MatchKeys :
       clients[a].status = "idle" =>
         LET S == handleRandomJoin(Cur, a, reverse, k)
         IN /\ S.outbox # << >>
            /\ S.outbox[1] = [to |-> a, type |-> "queue:status",
                              payload |-> [searching |-> TRUE]]
  /\ \A a \in Sessions : \A b \in Sessions : \A reverse \in BOOLEAN :
     \A k \in MatchKeys :
       C4_Queued(a, b) =>
         LET S == handleRandomJoin(Cur, b, reverse, k)
             black == IF reverse THEN b ELSE a
             white == IF reverse THEN a ELSE b
         IN /\ k \in DOMAIN S.rooms
            /\ S.rooms[k].status = "playing"
            /\ S.rooms[k].players = [B |-> black, W |-> white]
            /\ S.randomQueue = << >>
            /\ \A x \in {a, b} :
                 /\ S.clients[x].status = "playing"
                 /\ S.clients[x].roomKey = k
                 /\ clients[x].socket = "OPEN" =>
                      Received(S, x, "match:start") =
                        { [youAre |-> "player",
                           yourDisk |-> IF x = black THEN "B" ELSE "W",
                           matchKey |-> k,
                           state |-> toStatePayload(S.rooms[k])] }

\* One session waits in the queue with an open transport and a second, idle
\* one is about to join; the draw decides who plays Black.
C4_Witness ==
  \E a \in Sessions : \E b \in Sessions :
    /\ C4_Queued(a, b)
    /\ a \in Connected
    /\ handleRandomJoin(Cur, b, FALSE, 1).rooms[1].players.B = a
    /\ handleRandomJoin(Cur, b, TRUE, 1).rooms[1].players.B = b

(***************************************************************************)
(* C5: a registered session whose transport has closed has its eviction    *)
(* timer armed once the close event is delivered; while its transport is   *)
(* closing or closed the server keeps running, and eventually the session  *)
(* has reconnected or has been removed from the registry; when the timer   *)
(* of a player seated in a room that is still playing fires, the room is   *)
(* finished with the opponent as winner and leaves the index, the opponent *)
(* is sent room-end with reason opponent-left, and the session is removed  *)
(* from the registry.  This is what the claim states for a grace period in *)
(* which nothing else ends the room.                                       *)
(***************************************************************************)
C5_Away(id) ==
  /\ id \in Sessions
  /\ clients[id].socket = "CLOSED"

C5_Seated(id, k, disk) ==
  /\ k \in DOMAIN rooms
  /\ rooms[k].status = "playing"
  /\ rooms[k].players[disk] = id

C5_TimerForfeits ==
  \A id \in SessionIds : \A k \in DOMAIN rooms : \A disk \in Disks :
    C5_Away(id) /\ C5_Seated(id, k, disk) =>
      LET S == onDisconnectTimer(Cur, id)
          opponent == rooms[k].players[nextDisk(disk)]
      IN /\ clients[id].disconnectTimer
         /\ k \notin DOMAIN S.rooms
         /\ id \notin clientsById(S)
         /\ opponent \in Recipients(rooms[k]) =>
              /\ Received(S, opponent, "match:end") # {}
              /\ \A p \in Received(S, opponent, "match:end") :
                   /\ p.reason = "opponent-left"
                   /\ p.state.winner = nextDisk(disk)
                   /\ p.state.turnDeadline = NullDeadline
              /\ S.clients[opponent].status = "idle"
              /\ S.clients[opponent].roomKey = NullKey

C5_Resolved(id) == id \notin Sessions \/ clients[id].socket = "OPEN"

\* The transport of the registered session id is closing or closed.
C5_Closing(id) ==
  /\ id \in Sessions
  /\ clients[id].socket # "OPEN"

\* C5: the timer of an absent seated player forfeits a room that is still
\* playing; no step taken while a session is absent ends the process, and
\* an absent session is eventually removed or bound again, so that it is
\* the running server that removes it.
C5_Eviction ==
  /\ [](C5_TimerForfeits)
  /\ [][\A id \in SessionIds : C5_Closing(id) => running']_vars
  /\ \A id \in SessionIds : C5_Closing(id) ~> C5_Resolved(id)

(***************************************************************************)
(* C6: while a playing room's turn deadline has elapsed the server keeps   *)
(* running, and eventually the room is resolved or has had its deadline    *)
(* refreshed by a move; the sweep removes it as finished with the opponent *)
(* of the disk on move as winner and sends room-end with reason timeout to *)
(* every session bound to the room.                                        *)
(***************************************************************************)
C6_Expired(k) ==
  /\ k \in DOMAIN rooms
  /\ rooms[k].status = "playing"
  /\ rooms[k].turnDeadline # NullDeadline
  /\ rooms[k].turnDeadline <= now

C6_SweepForfeits ==
  \A k \in DOMAIN rooms :
    C6_Expired(k) =>
      LET S == sweep(Cur)
      IN /\ k \notin DOMAIN S.rooms
         /\ \A r \in Recipients(rooms[k]) :
              /\ Received(S, r, "match:end") # {}
              /\ \A p \in Received(S, r, "match:end") :
                   /\ p.reason = "timeout"
                   /\ p.state.winner = nextDisk(rooms[k].currentDisk)
                   /\ p.state.board = rooms[k].board
                   /\ p.state.turnDeadline = NullDeadline
              /\ S.clients[r].status = "idle"
              /\ S.clients[r].roomKey = NullKey

\* C6: the sweep forfeits an expired room; no step taken while a room is
\* expired ends the process, and an expired room eventually is expired no
\* longer, so that it is the running server that resolves it.
C6_Timeout ==
  /\ [](C6_SweepForfeits)
  /\ [][\A k \in MatchKeys : C6_Expired(k) => running']_vars
  /\ \A k \in MatchKeys : C6_Expired(k) ~> ~C6_Expired(k)

(***************************************************************************)
(* C7: a session that has an open transport binding is in the registry:    *)
(* it is never evicted while bound, whatever the order of the arrival of   *)
(* the new connection and the close event of the old transport.            *)
(***************************************************************************)
C7_BoundSessionIsRegistered ==
  \A id \in DOMAIN clients : clients[id].socket = "OPEN" => clients[id].registered

(***************************************************************************)
(* C8: when a connection presents the identifier of a registered session   *)
(* whose transport has closed (the close event delivered or still to       *)
(* come), the eviction timer is not pending afterwards, the session stays  *)
(* registered with its identifier, status, room, role and disk, and no     *)
(* room and no queue entry changes; and the disconnect has no effect       *)
(* later: no eviction timer is pending for a registered session that is    *)
(* bound to an open transport.                                             *)
(***************************************************************************)
C8_Closed(id) ==
  /\ id \in Sessions
  /\ clients[id].socket # "OPEN"

\* C8: a reconnection keeps the session as it is and leaves no eviction
\* timer pending against a bound session.
C8_ReconnectKeepsSession ==
  /\ \A id \in SessionIds :
       C8_Closed(id) =>
         LET S == onConnection(Cur, id)
         IN /\ ~S.clients[id].disconnectTimer
            /\ S.clients[id].registered
            /\ S.clients[id].socket = "OPEN"
            /\ S.clients[id].id = id
            /\ S.clients[id].status = clients[id].status
            /\ S.clients[id].roomKey = clients[id].roomKey
            /\ S.clients[id].role = clients[id].role
            /\ S.clients[id].disk = clients[id].disk
            /\ S.rooms = rooms
            /\ S.randomQueue = randomQueue
            /\ \A other \in (DOMAIN clients) \ {id} : S.clients[other] = clients[other]
            /\ \E p \in Received(S, id, "hello") : p.clientId = id
  /\ \A id \in Sessions :
       clients[id].socket = "OPEN" => ~clients[id].disconnectTimer

(***************************************************************************)
(* C9: a connection presenting the identifier of a registered session is   *)
(* answered with queue-status{searching:true} if the session is queued,    *)
(* with room-waiting and its seat if it is seated in a waiting room, and   *)
(* with room-start carrying the current state of the room if it is seated  *)
(* or spectating in a playing room.                                        *)
(***************************************************************************)
C9_InRoom(id, k) ==
  \/ \E disk \in Disks : rooms[k].players[disk] = id
  \/ \E i \in DOMAIN rooms[k].spectators : rooms[k].spectators[i] = id

C9_ReconnectSnapshot ==
  \A id \in Sessions :
    LET S == onConnection(Cur, id)
    IN /\ (\E i \in DOMAIN randomQueue : randomQueue[i] = id) =>
            Received(S, id, "queue:status") = { [searching |-> TRUE] }
       /\ \A k \in DOMAIN rooms : \A disk \in Disks :
            rooms[k].status = "waiting" /\ rooms[k].players[disk] = id =>
              Received(S, id, "match:waiting") = { [matchKey |-> k, yourDisk |-> disk] }
       /\ \A k \in DOMAIN rooms :
            rooms[k].status = "playing" /\ C9_InRoom(id, k) =>
              \E p \in Received(S, id, "match:start") :
                p.matchKey = k /\ p.state = toStatePayload(rooms[k])

(***************************************************************************)
(* C10: a spectate-join of an idle session naming a playing room with both *)
(* seats filled makes the requester a spectator of the room; the snapshot  *)
(* broadcast next counts exactly one spectator more than before, and the   *)
(* board, the active disk, the seats and the winner are unchanged.         *)
(***************************************************************************)
C10_Applies(id, k) ==
  /\ id \in Sessions \cap Connected
  /\ clients[id].status = "idle"
  /\ k \in DOMAIN rooms
  /\ rooms[k].status = "playing"
  /\ rooms[k].players.B # NullId
  /\ rooms[k].players.W # NullId

C10_SpectateJoin ==
  \A id \in SessionIds : \A k \in MatchKeys :
    C10_Applies(id, k) =>
      LET S == handleSpectateJoin(Cur, id, k)
      IN /\ S.clients[id].status = "spectating"
         /\ S.clients[id].role = "spectator"
         /\ S.clients[id].roomKey = k
         /\ \E i \in DOMAIN S.rooms[k].spectators : S.rooms[k].spectators[i] = id
         /\ Len(S.rooms[k].spectators) = Len(rooms[k].spectators) + 1
         /\ Received(S, id, "match:update") # {}
         /\ Received(S, id, "error") = {}
         /\ \A r \in Recipients(rooms[k]) : Received(S, r, "match:update") # {}
         /\ \A i \in DOMAIN S.outbox :
              S.outbox[i].type \in {"match:update", "match:start"} =>
                LET state == S.outbox[i].payload.state
                IN /\ state.spectators = Len(rooms[k].spectators) + 1
                   /\ state.board = rooms[k].board
                   /\ state.currentDisk = rooms[k].currentDisk
                   /\ state.winner = rooms[k].winner
         /\ S.rooms[k].board = rooms[k].board
         /\ S.rooms[k].currentDisk = rooms[k].currentDisk
         /\ S.rooms[k].players = rooms[k].players
         /\ S.rooms[k].winner = rooms[k].winner
         /\ S.rooms[k].status = "playing"

\* An idle connected session can watch a room whose two players are
\* connected and have moved.
C10_Witness ==
  \E id \in SessionIds : \E k \in MatchKeys :
    /\ C10_Applies(id, k)
    /\ rooms[k].lastMove # NullMove
    /\ Cardinality(Recipients(rooms[k])) = 2
    /\ handleSpectateJoin(Cur, id, k).rooms[k].spectators = <<id>>

(***************************************************************************)
(* C11 (as stated): a spectate-join of an idle session naming a room that  *)
(* is still waiting seats the requester as the second player and the room  *)
(* becomes playing.                                                        *)
(***************************************************************************)
C11_Applies(id, k) ==
  /\ id \in Sessions \cap Connected
  /\ clients[id].status = "idle"
  /\ k \in DOMAIN rooms
  /\ rooms[k].status = "waiting"

C11_SpectateSeatsInWaitingRoom ==
  \A id \in SessionIds : \A k \in MatchKeys :
    C11_Applies(id, k) =>
      LET S == handleSpectateJoin(Cur, id, k)
      IN /\ S.rooms[k].status = "playing"
         /\ id \in {S.rooms[k].players.B, S.rooms[k].players.W}

(***************************************************************************)
(* C11 (amended): a spectate-join of an idle session naming a room that is *)
(* still waiting is answered with one error to the requester and changes   *)
(* no session, no room and no queue entry: the requester is neither seated *)
(* nor added as a spectator, and the room stays waiting.                   *)
(***************************************************************************)
C11_SpectateWaitingRoomRejected ==
  \A id \in SessionIds : \A k \in MatchKeys :
    C11_Applies(id, k) =>
      LET S == handleSpectateJoin(Cur, id, k)
      IN /\ S.clients = clients
         /\ S.rooms = rooms
         /\ S.randomQueue = randomQueue
         /\ S.outbox = << [to |-> id, type |-> "error",
                           payload |-> [message |-> "Match is not currently playing."]] >>

\* An idle connected session can name a waiting room whose creator is seated.
C11_Witness ==
  \E id \in SessionIds : \E k \in MatchKeys :
    /\ C11_Applies(id, k)
    /\ rooms[k].players.B \in Sessions \ {id}
    /\ Received(handleSpectateJoin(Cur, id, k), id, "error") # {}

(***************************************************************************)
(* C12: when a key-join of an idle session fills the second seat of a      *)
(* waiting room, or a queue-join pairs two sessions, the room is playing   *)
(* with the initial board, Black on move, no last move, no winner and the  *)
(* turn deadline now + TURN_TIMEOUT_MS, and each seated player whose       *)
(* transport is open is sent room-start with its disk and that snapshot.   *)
(***************************************************************************)
C12_Fresh(S, k) ==
  LET room == S.rooms[k]
  IN /\ room.status = "playing"
     /\ room.board = createInitialBoard
     /\ room.currentDisk = "B"
     /\ room.lastMove = NullMove
     /\ room.winner = Null
     /\ room.turnDeadline = now + TURN_TIMEOUT_MS
     /\ room.players.B # NullId
     /\ room.players.W # NullId
     /\ room.players.B # room.players.W
     /\ \A disk \in Disks :
          LET x == room.players[disk]
          IN x \in Sessions /\ clients[x].socket = "OPEN" =>
               Received(S, x, "match:start") =
                 { [youAre |-> "player", yourDisk |-> disk, matchKey |-> k,
                    state |-> toStatePayload(room)] }

C12_KeyJoinFills(id, k) ==
  /\ id \in Sessions \cap Connected
  /\ clients[id].status = "idle"
  /\ k \in DOMAIN rooms
  /\ rooms[k].status = "waiting"

C12_RoomStart ==
  /\ \A id \in SessionIds : \A k \in MatchKeys :
       C12_KeyJoinFills(id, k) =>
         LET S == handleKeyJoin(Cur, id, k)
         IN /\ C12_Fresh(S, k)
            /\ id \in {S.rooms[k].players.B, S.rooms[k].players.W}
            /\ toStatePayload(S.rooms[k]).board = createInitialBoard
            /\ toStatePayload(S.rooms[k]).scores = [B |-> 2, W |-> 2]
  /\ \A a \in Sessions : \A b \in Sessions : \A reverse \in BOOLEAN :
     \A k \in MatchKeys :
       C4_Queued(a, b) =>
         C12_Fresh(handleRandomJoin(Cur, b, reverse, k), k)

\* At time 2 an idle connected session can join by key the waiting room of
\* a connected creator.
C12_Witness ==
  \E id \in SessionIds : \E k \in MatchKeys :
    /\ C12_KeyJoinFills(id, k)
    /\ now = 2
    /\ rooms[k].players.B \in Sessions \cap Connected
    /\ handleKeyJoin(Cur, id, k).rooms[k].players.W = id

(***************************************************************************)
(* C13: a key-join of an idle session naming a playing room with both      *)
(* seats filled sends spectate-offer{matchKey} to the requester and        *)
(* nothing else, and changes no session, no room and no queue entry.       *)
(***************************************************************************)
C13_KeyJoinOffersSpectating ==
  \A id \in SessionIds : \A k \in MatchKeys :
    C10_Applies(id, k) =>
      LET S == handleKeyJoin(Cur, id, k)
      IN /\ S.outbox = << [to |-> id, type |-> "prompt:spectate",
                           payload |-> [matchKey |-> k]] >>
         /\ S.clients = clients
         /\ clients[id].status = "idle"
         /\ clients[id].roomKey = NullKey
         /\ S.rooms = rooms
         /\ S.randomQueue = randomQueue
         /\ S.roomOrder = roomOrder

\* An idle connected session names a playing room in which a move has been
\* played.
C13_Witness ==
  \E id \in SessionIds : \E k \in MatchKeys :
    /\ C10_Applies(id, k)
    /\ rooms[k].lastMove # NullMove
    /\ Received(handleKeyJoin(Cur, id, k), id, "prompt:spectate") # {}

(***************************************************************************)
(* C14: when a seated player leaves a playing room, the room is finished   *)
(* with the other seated player as winner, room-end is sent to that player *)
(* and to every spectator, and the room leaves the index; when it leaves a *)
(* waiting room, the room leaves the index with no winner; in both cases   *)
(* the leaver is idle with no room, role or disk afterwards.               *)
(***************************************************************************)
C14_SeatedOn(id, k, disk) ==
  /\ id \in Sessions \cap Connected
  /\ k \in DOMAIN rooms
  /\ rooms[k].players[disk] = id

C14_OtherDisk(disk) == IF disk = "B" THEN "W" ELSE "B"

C14_LeaverIdle(S, id) ==
  /\ S.clients[id].status = "idle"
  /\ S.clients[id].roomKey = NullKey
  /\ S.clients[id].role = Null
  /\ S.clients[id].disk = Null
  /\ S.clients[id].registered

C14_SeatedLeave ==
  \A id \in SessionIds : \A k \in MatchKeys : \A disk \in Disks :
    C14_SeatedOn(id, k, disk) =>
      LET S == handleLeave(Cur, id)
          room == rooms[k]
          other == room.players[C14_OtherDisk(disk)]
      IN /\ k \notin DOMAIN S.rooms
         /\ C14_LeaverIdle(S, id)
         /\ room.status = "playing" =>
              /\ other # NullId
              /\ \A r \in Recipients(room) \ {id} :
                   /\ Received(S, r, "match:end") # {}
                   /\ \A p \in Received(S, r, "match:end") :
                        /\ p.reason = "opponent-left"
                        /\ p.state.winner = C14_OtherDisk(disk)
                        /\ p.state.board = room.board
                   /\ S.clients[r].status = "idle"
                   /\ S.clients[r].roomKey = NullKey
              /\ \A i \in DOMAIN S.outbox :
                   S.outbox[i].to \in Recipients(room) \ {id}
         /\ room.status = "waiting" =>
              /\ S.outbox = << >>
              /\ room.winner = Null
         /\ room.status \in {"playing", "waiting"}

\* A connected player can leave a playing room watched by a connected
\* spectator while the opponent is connected.
C14_Witness ==
  \E id \in SessionIds : \E k \in MatchKeys : \E disk \in Disks :
    /\ C14_SeatedOn(id, k, disk)
    /\ rooms[k].status = "playing"
    /\ Cardinality(Recipients(rooms[k])) = 3
    /\ k \notin DOMAIN handleLeave(Cur, id).rooms

(***************************************************************************)
(* C15: in every state between two events no room of the index is          *)
(* finished, and in every step that removes a room from the index each     *)
(* registered session that was seated or spectating in it is idle with no  *)
(* room key, role or disk afterwards.                                      *)
(***************************************************************************)
C15_NoFinishedRoom == \A k \in DOMAIN rooms : rooms[k].status # "finished"

C15_Occupants(room) ==
  {room.players.B, room.players.W}
    \cup { room.spectators[i] : i \in DOMAIN room.spectators }

C15_OccupantsReleased ==
  \A k \in (DOMAIN rooms) \ (DOMAIN rooms') :
    \A id \in C15_Occupants(rooms[k]) \cap Sessions' :
      /\ clients'[id].status = "idle"
      /\ clients'[id].roomKey = NullKey
      /\ clients'[id].role = Null
      /\ clients'[id].disk = Null

C15_FinishedRoomsLeave ==
  /\ [](C15_NoFinishedRoom)
  /\ [][C15_OccupantsReleased]_vars

(***************************************************************************)
(* C16: in every event reaction that changes a room and broadcasts it (a   *)
(* room started, a move applied, a spectator joined or left, a room ended) *)
(* the snapshots sent about the room are all the same, they are the state  *)
(* of the room after the change (of the finished room, when it is          *)
(* removed), every registered session bound to the room afterwards whose   *)
(* transport is open is sent one, and nobody outside the room is.          *)
(***************************************************************************)
\* The reactions to the events that may happen now, each with the session
\* that leaves its room in it (NullId: none).
C16_Reactions ==
  { [S |-> handleRandomJoin(Cur, id, reverse, key), left |-> NullId] :
      id \in Connected, reverse \in BOOLEAN, key \in MatchKeys }
    \cup { [S |-> handleKeyCreate(Cur, id, key), left |-> NullId] :
             id \in Connected, key \in MatchKeys }
    \cup { [S |-> handleKeyJoin(Cur, id, k), left |-> NullId] :
             id \in Connected, k \in KeyInputs }
    \cup { [S |-> handleSpectateJoin(Cur, id, k), left |-> NullId] :
             id \in Connected, k \in KeyInputs }
    \cup { [S |-> handleBadMessage(Cur, id, shape, type), left |-> NullId] :
             id \in Connected, shape \in MessageShapes, type \in UnknownTypes }
    \cup { [S |-> onClose([Cur EXCEPT !.clients[id].socket = "CLOSED"], id),
            left |-> NullId] :
             id \in { c \in DOMAIN clients : clients[c].socket = "CLOSING" } }
    \cup { [S |-> onClose([Cur EXCEPT !.clients[id].stale = @ - 1], id),
            left |-> NullId] :
             id \in { c \in DOMAIN clients : clients[c].stale > 0 } }
    \cup UNION { { [S |-> handleMove(Cur, id, index), left |-> NullId] :
                     index \in MoveInputs(id) } : id \in Connected }
    \cup { [S |-> handleLeave(Cur, id), left |-> id] : id \in Connected }
    \cup { [S |-> onDisconnectTimer(Cur, id), left |-> id] :
             id \in { c \in DOMAIN clients : clients[c].disconnectTimer } }
    \cup { [S |-> sweep(Cur), left |-> NullId] }

C16_SnapshotTypes == {"match:start", "match:update", "match:end"}

C16_About(S, k) ==
  { i \in DOMAIN S.outbox :
      /\ S.outbox[i].type \in C16_SnapshotTypes
      /\ S.outbox[i].payload.state.matchKey = k }

\* The registered sessions with an open transport bound to room k after the
\* reaction; after the removal of the room, those bound to it before.
C16_Bound(R, k) ==
  LET room == IF k \in DOMAIN R.S.rooms THEN R.S.rooms[k] ELSE rooms[k]
  IN { id \in C15_Occupants(room) \ {NullId, R.left} :
         /\ id \in DOMAIN R.S.clients
         /\ R.S.clients[id].registered
         /\ R.S.clients[id].socket = "OPEN" }

C16_SameSnapshot ==
  \A R \in C16_Reactions : \A k \in KeyInputs :
    LET S == R.S
        about == C16_About(S, k)
    IN about # {} =>
         /\ \A i \in about : \A j \in about :
              S.outbox[i].payload.state = S.outbox[j].payload.state
         /\ k \in DOMAIN S.rooms =>
              \A i \in about : S.outbox[i].payload.state = toStatePayload(S.rooms[k])
         /\ k \notin DOMAIN S.rooms =>
              /\ k \in DOMAIN rooms
              /\ \A i \in about :
                   LET state == S.outbox[i].payload.state
                   IN /\ rooms[k].status = "playing" => state.winner # Null
                      /\ state.turnDeadline = NullDeadline
                      /\ state.spectators = Len(rooms[k].spectators)
                      /\ state.scores = countDisks(state.board)
                      /\ \/ state.board = rooms[k].board /\ state.lastMove = rooms[k].lastMove
                         \/ \E index \in Cells :
                              /\ LegalIn(k, index)
                              /\ state.board = BoardAfter(k, index)
                              /\ state.lastMove = index
         /\ C16_Bound(R, k) \subseteq { S.outbox[i].to : i \in about }
         /\ \A i \in about :
              S.outbox[i].to \in
                C15_Occupants(IF k \in DOMAIN S.rooms THEN S.rooms[k] ELSE rooms[k])

(***************************************************************************)
(* C17: when an event reaction ends a playing room, every registered       *)
(* session that was seated or spectating in it is sent room-end with the   *)
(* final state in that reaction or, if its transport is closed then, is    *)
(* sent the terminal snapshot when it reconnects.                          *)
(***************************************************************************)
C17_Terminal(S, id) ==
  { p \in Received(S, id, "match:end") \cup Received(S, id, "match:start") :
      p.state.winner # Null }

C17_TerminalSnapshotObserved ==
  \A R \in C16_Reactions : \A k \in (DOMAIN rooms) \ (DOMAIN R.S.rooms) :
    rooms[k].status = "playing" =>
      \A id \in C15_Occupants(rooms[k]) \ {NullId, R.left} :
        id \in Sessions =>
          \/ C17_Terminal(R.S, id) # {}
          \/ /\ clients[id].socket = "CLOSED"
             /\ C17_Terminal(onConnection([R.S EXCEPT !.outbox = << >>], id), id) # {}

\* The reaction S to a message of id is one error reply to id and no change
\* of a session, a room or the queue.
ErrorOnly(S, id) ==
  /\ Len(S.outbox) = 1
  /\ S.outbox[1].to = id
  /\ S.outbox[1].type = "error"
  /\ S.clients = clients
  /\ S.rooms = rooms
  /\ S.randomQueue = randomQueue
  /\ S.roomOrder = roomOrder

(***************************************************************************)
(* C18: every move message of a registered session that is not a legal     *)
(* move of the player on move in a playing room is answered with one error *)
(* reply to the sender and nothing else.                                   *)
(***************************************************************************)
C18_RejectedMoveAnswered ==
  \A id \in Sessions \cap Connected : \A index \in MoveInputs(id) :
    ~Permitted(id, index) => ErrorOnly(handleMove(Cur, id, index), id)

(***************************************************************************)
(* C19: every inbound message that does not parse, has no type, has an     *)
(* unknown type or lacks its required field, and every frame that cannot   *)
(* be decoded into a message, is answered with one error reply to the      *)
(* sender and changes no session, room or queue entry.                     *)
(***************************************************************************)
C19_BadMessageAnswered ==
  \A id \in Sessions \cap Connected :
    /\ \A shape \in MessageShapes : \A type \in UnknownTypes :
         ErrorOnly(handleBadMessage(Cur, id, shape, type), id)
    /\ ErrorOnly(transportClose(Cur, id, TRUE), id)

(***************************************************************************)
(* C20 (as stated): a queue-join, room-create, room-join or spectate-join  *)
(* of a registered session that is not idle is answered with one error     *)
(* reply and changes nothing.                                              *)
(***************************************************************************)
C20_Busy(id) ==
  /\ id \in Sessions \cap Connected
  /\ clients[id].status # "idle"

C20_BusyRequestIsError ==
  \A id \in SessionIds :
    C20_Busy(id) =>
      /\ \A reverse \in BOOLEAN : \A key \in MatchKeys :
           ErrorOnly(handleRandomJoin(Cur, id, reverse, key), id)
      /\ \A key \in MatchKeys : ErrorOnly(handleKeyCreate(Cur, id, key), id)
      /\ \A k \in MatchKeys :
           /\ ErrorOnly(handleKeyJoin(Cur, id, k), id)
           /\ ErrorOnly(handleSpectateJoin(Cur, id, k), id)

(***************************************************************************)
(* C20 (amended): a room-create, room-join or spectate-join of a           *)
(* registered session that is not idle, and a queue-join of one that is    *)
(* waiting, playing or spectating, is answered with one error reply and    *)
(* changes nothing; a queue-join of a session whose status is queued is    *)
(* answered with queue-status{searching:true} and changes nothing.         *)
(***************************************************************************)
C20_BusyRequestRejected ==
  \A id \in SessionIds :
    C20_Busy(id) =>
      /\ \A reverse \in BOOLEAN : \A key \in MatchKeys :
           LET S == handleRandomJoin(Cur, id, reverse, key)
           IN IF clients[id].status = "queue"
              THEN /\ S.outbox = << [to |-> id, type |-> "queue:status",
                                     payload |-> [searching |-> TRUE]] >>
                   /\ S.clients = clients
                   /\ S.rooms = rooms
                   /\ S.randomQueue = randomQueue
                   /\ S.roomOrder = roomOrder
              ELSE ErrorOnly(S, id)
      /\ \A key \in MatchKeys : ErrorOnly(handleKeyCreate(Cur, id, key), id)
      /\ \A k \in MatchKeys :
           /\ ErrorOnly(handleKeyJoin(Cur, id, k), id)
           /\ ErrorOnly(handleSpectateJoin(Cur, id, k), id)

\* One connected session is queued while a room is playing with a connected
\* player: both are busy.
C20_Witness ==
  /\ \E id \in SessionIds : C20_Busy(id) /\ randomQueue = <<id>>
  /\ \E id \in SessionIds :
       /\ C20_Busy(id)
       /\ clients[id].status = "playing"
       /\ Received(handleKeyCreate(Cur, id, 1), id, "error") # {}

\* id is seated in room k or is one of its spectators.
InRoom(id, k) ==
  \/ id \in {rooms[k].players.B, rooms[k].players.W}
  \/ \E i \in DOMAIN rooms[k].spectators : rooms[k].spectators[i] = id

(***************************************************************************)
(* C21: a queue-cancel of a registered session removes the sender from the *)
(* matchmaking queue when it is there and changes nothing otherwise: a     *)
(* sender that is seated or spectating in a room keeps its seat or         *)
(* spectator entry, and the status, winner and board of its room are       *)
(* unchanged.  The reaction to random:cancel is handleLeave.               *)
(***************************************************************************)
C21_QueueCancelKeepsRooms ==
  \A id \in Sessions \cap Connected :
    LET S == handleLeave(Cur, id)
    IN /\ \A i \in DOMAIN S.randomQueue : S.randomQueue[i] # id
       /\ (\A i \in DOMAIN randomQueue : randomQueue[i] # id) =>
            S.randomQueue = randomQueue
       /\ \A k \in DOMAIN rooms :
            InRoom(id, k) =>
              /\ k \in DOMAIN S.rooms
              /\ S.rooms[k].players = rooms[k].players
              /\ S.rooms[k].spectators = rooms[k].spectators
              /\ S.rooms[k].status = rooms[k].status
              /\ S.rooms[k].winner = rooms[k].winner
              /\ S.rooms[k].board = rooms[k].board

(***************************************************************************)
(* C22: a leave sent by a registered session that is idle is answered with *)
(* no error reply and changes no session, room or queue entry; the sender  *)
(* stays registered and idle, so the same holds of the next leave.         *)
(***************************************************************************)
C22_Unchanged(S) ==
  /\ S.clients = clients
  /\ S.rooms = rooms
  /\ S.randomQueue = randomQueue
  /\ S.roomOrder = roomOrder

C22_IdleLeave ==
  \A id \in Sessions \cap Connected :
    clients[id].status = "idle" =>
      LET S == handleLeave(Cur, id)
          again == handleLeave([S EXCEPT !.outbox = << >>], id)
      IN /\ Received(S, id, "error") = {}
         /\ C22_Unchanged(S)
         /\ S.clients[id].registered /\ S.clients[id].status = "idle"
         /\ Received(again, id, "error") = {}
         /\ C22_Unchanged(again)

\* An idle connected session next to a queued session and a waiting room:
\* its leave is handled and touches neither.
C22_Witness ==
  \E id \in Sessions \cap Connected :
    /\ clients[id].status = "idle"
    /\ Len(randomQueue) = 1
    /\ \E k \in DOMAIN rooms : rooms[k].status = "waiting"
    /\ handleLeave(Cur, id).rooms = rooms

(***************************************************************************)
(* C23: after every event each seat of each room holds at most one session *)
(* identifier, and each session identifier ever minted appears in at most  *)
(* one room of the index, there in at most one of the Black seat, the      *)
(* White seat and one spectator entry.                                     *)
(***************************************************************************)
\* The seats of the index that hold id.
C23_Seats(id) ==
  { p \in (DOMAIN rooms) \X Disks : rooms[p[1]].players[p[2]] = id }

\* The spectator entries of the index that hold id.
C23_Entries(id) ==
  UNION { { <<k, i>> : i \in { j \in DOMAIN rooms[k].spectators :
                                 rooms[k].spectators[j] = id } } :
          k \in DOMAIN rooms }

C23_OnePlace ==
  /\ \A k \in DOMAIN rooms : \A disk \in Disks :
       rooms[k].players[disk] \in {NullId} \cup DOMAIN clients
  /\ \A id \in DOMAIN clients :
       Cardinality(C23_Seats(id)) + Cardinality(C23_Entries(id)) <= 1

\* Two rooms are in the index, one playing and one waiting, and a session
\* seated in the playing room asks to join the waiting one and stays where
\* it is.
C23_Witness ==
  \E id \in Sessions \cap Connected : \E k \in DOMAIN rooms : \E j \in DOMAIN rooms :
    /\ k # j
    /\ rooms[k].status = "playing"
    /\ rooms[j].status = "waiting"
    /\ id \in {rooms[k].players.B, rooms[k].players.W}
    /\ rooms[k].lastMove # NullMove
    /\ handleKeyJoin(Cur, id, j).rooms = rooms

(***************************************************************************)
(* C24: after every event the status, room key and disk of each registered *)
(* session agree with its room membership: seated in a playing room it has *)
(* status playing, the key of the room and the disk of its seat; seated in *)
(* a waiting room it has status waiting; a spectator has status            *)
(* spectating, the key of the room and no disk; a session in no room has   *)
(* no room key and no disk.                                                *)
(***************************************************************************)
C24_MetaAgreesWithMembership ==
  \A id \in Sessions :
    /\ \A k \in DOMAIN rooms : \A disk \in Disks :
         rooms[k].players[disk] = id =>
           /\ clients[id].roomKey = k
           /\ clients[id].disk = disk
           /\ rooms[k].status = "playing" => clients[id].status = "playing"
           /\ rooms[k].status = "waiting" => clients[id].status = "waiting"
    /\ \A k \in DOMAIN rooms :
         (\E i \in DOMAIN rooms[k].spectators : rooms[k].spectators[i] = id) =>
           /\ clients[id].status = "spectating"
           /\ clients[id].roomKey = k
           /\ clients[id].disk = Null
    /\ (\A k \in DOMAIN rooms : ~InRoom(id, k)) =>
         /\ clients[id].roomKey = NullKey
         /\ clients[id].disk = Null

\* The reactions to the events that may happen now, connections and the end
\* of the process included.
Reactions ==
  IF running
  THEN { R.S : R \in C16_Reactions }
         \cup { onConnection(Cur, requestedId) :
                  requestedId \in {NullId} \cup SessionIds }
         \cup { processExit(Cur) }
  ELSE {}

\* The snapshots of room k a reaction sent.
Snapshots(S, k) ==
  { S.outbox[i].payload.state : i \in C16_About(S, k) }

(***************************************************************************)
(* C5 (as stated): once the transport of a player seated in a playing room *)
(* has closed and no connection has presented its identifier since, the    *)
(* room finishes with the opponent recorded as winner and room-end is sent *)
(* with a forfeit reason: every reaction that ends the room sends          *)
(* room-end about it with reason opponent-left and the disk of the         *)
(* opponent as winner.                                                     *)
(***************************************************************************)
C5_EndsByForfeitOnly ==
  \A id \in SessionIds : \A k \in DOMAIN rooms : \A disk \in Disks :
    C5_Closing(id) /\ C5_Seated(id, k, disk) =>
      \A S \in Reactions :
        k \notin DOMAIN S.rooms =>
          \A i \in DOMAIN S.outbox :
            ( /\ S.outbox[i].type = "match:end"
              /\ S.outbox[i].payload.state.matchKey = k ) =>
              /\ S.outbox[i].payload.reason = "opponent-left"
              /\ S.outbox[i].payload.state.winner = nextDisk(disk)

(***************************************************************************)
(* C25: the turn deadline of every room of the index is set exactly when   *)
(* the status of the room is playing, and so is the deadline of every      *)
(* snapshot sent: a snapshot of a room that stays in the index carries a   *)
(* deadline exactly when the room is playing, and a snapshot sent in the   *)
(* reaction that ends a room carries none.                                 *)
(***************************************************************************)
C25_DeadlineIffPlaying ==
  /\ \A k \in DOMAIN rooms :
       rooms[k].turnDeadline # NullDeadline <=> rooms[k].status = "playing"
  /\ \A S \in Reactions : \A k \in KeyInputs : \A state \in Snapshots(S, k) :
       IF k \in DOMAIN S.rooms
       THEN state.turnDeadline # NullDeadline <=> S.rooms[k].status = "playing"
       ELSE state.turnDeadline = NullDeadline

\* A playing room with its deadline set has a connected spectator and a
\* connected player whose leave ends it: the room-end snapshots carry no
\* deadline, and the snapshot a spectator's leave sends carries one.
C25_Witness ==
  \E k \in DOMAIN rooms : \E id \in Connected : \E sp \in Connected :
    /\ rooms[k].status = "playing"
    /\ rooms[k].turnDeadline = now + TURN_TIMEOUT_MS
    /\ id \in {rooms[k].players.B, rooms[k].players.W}
    /\ \E i \in DOMAIN rooms[k].spectators : rooms[k].spectators[i] = sp
    /\ \E state \in Snapshots(handleLeave(Cur, id), k) :
         state.turnDeadline = NullDeadline
    /\ \E state \in Snapshots(handleLeave(Cur, sp), k) :
         state.turnDeadline # NullDeadline

(***************************************************************************)
(* C26: the winner of every room of the index is set exactly when the      *)
(* status of the room is finished, and so is the winner of every snapshot  *)
(* sent: a snapshot of a room that stays in the index (waiting or playing) *)
(* carries no winner, every snapshot sent in the reaction that ends a      *)
(* playing room (completion, leave, eviction, timeout) carries a disk or   *)
(* draw, and the room-end of a waiting room carries none.                  *)
(***************************************************************************)
C26_Winners == Disks \cup {"draw"}

C26_WinnerIffFinished ==
  /\ \A k \in DOMAIN rooms :
       /\ rooms[k].winner \in C26_Winners \cup {Null}
       /\ rooms[k].winner # Null <=> rooms[k].status = "finished"
  /\ \A S \in Reactions : \A k \in KeyInputs : \A state \in Snapshots(S, k) :
       IF k \in DOMAIN S.rooms
       THEN /\ S.rooms[k].status # "finished"
            /\ state.winner = Null
       ELSE /\ k \in DOMAIN rooms
            /\ rooms[k].status = "playing" => state.winner \in C26_Winners
            /\ rooms[k].status = "waiting" => state.winner = Null

\* A playing room whose deadline has passed, with a connected player: the
\* sweep ends it for the disk that is not on move, and the leave of the
\* player on move ends it for the same disk.
C26_Witness ==
  \E k \in DOMAIN rooms : \E id \in Connected :
    /\ C6_Expired(k)
    /\ OnMove(id, k)
    /\ \E state \in Snapshots(sweep(Cur), k) :
         state.winner = nextDisk(rooms[k].currentDisk)
    /\ \E state \in Snapshots(handleLeave(Cur, id), k) :
         state.winner = nextDisk(rooms[k].currentDisk)

(***************************************************************************)
(* C27: in every room of the index the status is playing exactly when both *)
(* seats hold a session identifier, and a waiting room has exactly one     *)
(* seat filled, the Black seat its creator took.                           *)
(***************************************************************************)
C27_SeatsFilled(room) ==
  Cardinality({ disk \in Disks : room.players[disk] # NullId })

C27_PlayingIffFull ==
  \A k \in DOMAIN rooms :
    /\ rooms[k].status = "playing" <=> C27_SeatsFilled(rooms[k]) = 2
    /\ rooms[k].status = "waiting" =>
         /\ C27_SeatsFilled(rooms[k]) = 1
         /\ rooms[k].players.B # NullId
         /\ clients[rooms[k].players.B].roomKey = k

\* A waiting room with its creator on Black, and an idle connected session
\* whose join by key fills the White seat and makes the room playing.
C27_Witness ==
  \E k \in DOMAIN rooms : \E id \in Sessions \cap Connected :
    /\ rooms[k].status = "waiting"
    /\ rooms[k].players.W = NullId
    /\ clients[id].status = "idle"
    /\ LET S == handleKeyJoin(Cur, id, k)
       IN /\ S.rooms[k].status = "playing"
          /\ S.rooms[k].players.W = id
          /\ S.rooms[k].players.B = rooms[k].players.B

(***************************************************************************)
(* C28: once the turn deadline of a playing room has passed, a move of the *)
(* player on move that arrives before the next sweep is not applied and    *)
(* sets no new deadline: the room is left as it is for the sweep to        *)
(* forfeit that player.                                                    *)
(***************************************************************************)
C28_LateMoveNotApplied ==
  \A id \in Sessions \cap Connected : \A index \in MoveInputs(id) : \A k \in DOMAIN rooms :
    (OnMove(id, k) /\ C6_Expired(k)) =>
      LET S == handleMove(Cur, id, index)
      IN /\ k \in DOMAIN S.rooms
         /\ RoomPosition(S.rooms[k]) = RoomPosition(rooms[k])
         /\ S.rooms[k].turnDeadline = rooms[k].turnDeadline
         /\ S.rooms[k].status = "playing"

(***************************************************************************)
(* C29: the turn deadline of a playing room is now + the configured        *)
(* timeout in the step that starts the room and in every step that applies *)
(* a move, and no other step changes it: rejected moves, spectator joins   *)
(* and leaves, transport closes, reconnections, the passing of time and    *)
(* sweeps that do not end the room leave its value as it is.  A room       *)
(* created under a key that was drawn before is a room that starts.        *)
(***************************************************************************)
\* The room under k after the step was created in it: a creation draws a key
\* and writes the room under that key only.
C29_Created(k) ==
  /\ keysDrawn' # keysDrawn
  /\ k \in DOMAIN rooms
  /\ rooms'[k] # rooms[k]

C29_DeadlineStep ==
  \A k \in DOMAIN rooms' :
    rooms'[k].status = "playing" =>
      IF k \notin DOMAIN rooms \/ rooms[k].status # "playing" \/ C29_Created(k)
      THEN rooms'[k].turnDeadline = now + TURN_TIMEOUT_MS
      ELSE IF RoomPosition(rooms'[k]) # RoomPosition(rooms[k])
      THEN rooms'[k].turnDeadline = now + TURN_TIMEOUT_MS
      ELSE rooms'[k].turnDeadline = rooms[k].turnDeadline

C29_DeadlineChanges == [][C29_DeadlineStep]_vars

\* Time has passed since the deadline of a playing room was set, and an
\* idle connected session joins it as a spectator without changing it.
C29_Witness ==
  \E k \in DOMAIN rooms : \E id \in Sessions \cap Connected :
    /\ rooms[k].status = "playing"
    /\ rooms[k].lastMove # NullMove
    /\ rooms[k].turnDeadline # now + TURN_TIMEOUT_MS
    /\ clients[id].status = "idle"
    /\ LET S == handleSpectateJoin(Cur, id, k)
       IN /\ S.rooms[k].spectators = <<id>>
          /\ S.rooms[k].turnDeadline = rooms[k].turnDeadline

(***************************************************************************)
(* C30: for every board and disk, computeValidMoves returns exactly the    *)
(* empty cells from which at least one of the 8 directions holds a         *)
(* contiguous run of one or more cells of the opponent ended by a cell of  *)
(* the disk itself (not by an empty cell or the edge), each mapped to the  *)
(* union of those runs; no entry is empty and every cell of an entry holds *)
(* the opponent's disk.                                                    *)
(***************************************************************************)
\* The cell j steps from index in direction d, and whether it is on the board.
C30_On(index, d, j) ==
  isInBounds((index \div BOARD_SIZE) + j * DIRECTIONS[d][1],
             (index % BOARD_SIZE) + j * DIRECTIONS[d][2])

C30_Cell(index, d, j) ==
  ((index \div BOARD_SIZE) + j * DIRECTIONS[d][1]) * BOARD_SIZE
    + ((index % BOARD_SIZE) + j * DIRECTIONS[d][2])

\* From index in direction d: n cells of the opponent, then one of disk.
C30_Run(board, disk, index, d, n) ==
  /\ \A j \in 1 .. n :
       C30_On(index, d, j) /\ board[C30_Cell(index, d, j)] = nextDisk(disk)
  /\ C30_On(index, d, n + 1)
  /\ board[C30_Cell(index, d, n + 1)] = disk

\* From index in direction d: n cells of the opponent, then the edge.
C30_RunToEdge(board, disk, index, d, n) ==
  /\ \A j \in 1 .. n :
       C30_On(index, d, j) /\ board[C30_Cell(index, d, j)] = nextDisk(disk)
  /\ ~C30_On(index, d, n + 1)

C30_Flips(board, disk, index) ==
  UNION { { C30_Cell(index, d, j) : j \in 1 .. n } :
          <<d, n>> \in { p \in (1 .. 8) \X (1 .. (BOARD_SIZE - 2)) :
                           C30_Run(board, disk, index, p[1], p[2]) } }

C30_LegalCells(board, disk) ==
  { index \in Cells : board[index] = Null /\ C30_Flips(board, disk, index) # {} }

C30_LegalMoves ==
  \A k \in DOMAIN rooms : \A disk \in Disks :
    LET board == rooms[k].board
        moves == computeValidMoves(board, disk)
    IN /\ DOMAIN moves = C30_LegalCells(board, disk)
       /\ \A index \in DOMAIN moves :
            /\ moves[index] = C30_Flips(board, disk, index)
            /\ moves[index] # {}
            /\ \A flip \in moves[index] : board[flip] = nextDisk(disk)

\* A board on which one legal cell flips runs in two directions, and an
\* empty cell sees a run of the opponent that ends at the edge.
C30_Witness ==
  \E k \in DOMAIN rooms : \E disk \in Disks :
    LET board == rooms[k].board
    IN /\ \E index \in DOMAIN computeValidMoves(board, disk) :
            Cardinality({ d \in 1 .. 8 : \E n \in 1 .. (BOARD_SIZE - 2) :
                            C30_Run(board, disk, index, d, n) }) >= 2
       /\ \E index \in Cells : \E d \in 1 .. 8 : \E n \in 1 .. (BOARD_SIZE - 1) :
            board[index] = Null /\ C30_RunToEdge(board, disk, index, d, n)

(***************************************************************************)
(* C31: for a board, a cell index, a disk and a set of cell indices,       *)
(* applyMove returns a board with as many cells as its input in which the  *)
(* index and every flip index hold the disk and every other cell is that   *)
(* of the input, and the array it was given is the same after the call.    *)
(***************************************************************************)
\* The flip lists tried for a cell: the captures of the cell, no capture,
\* and the two far corners.
C31_FlipInputs(board, disk, index) ==
  { validMovesGet(board, disk, index), {}, {0, BOARD_SIZE * BOARD_SIZE - 1} }

C31_ApplyMove ==
  \A k \in DOMAIN rooms : \A disk \in Disks : \A index \in Cells :
    \A flips \in C31_FlipInputs(rooms[k].board, disk, index) :
      LET board == rooms[k].board
          next == applyMove(board, index, disk, flips)
      IN /\ DOMAIN next = DOMAIN board
         /\ Cardinality(DOMAIN next) = BOARD_SIZE * BOARD_SIZE
         /\ next[index] = disk
         /\ \A flip \in flips : next[flip] = disk
         /\ \A i \in (DOMAIN board) \ ({index} \cup flips) : next[i] = board[i]
         /\ applyMoveInput(board, index, disk, flips) = board

\* A board produced by a move, on which a legal cell captures two or more
\* cells of the opponent.
C31_Witness ==
  \E k \in DOMAIN rooms : \E index \in Cells :
    /\ rooms[k].lastMove # NullMove
    /\ rooms[k].board[rooms[k].lastMove] # Null
    /\ Cardinality(validMovesGet(rooms[k].board, rooms[k].currentDisk, index)) >= 2
    /\ applyMove(rooms[k].board, index, rooms[k].currentDisk,
                 validMovesGet(rooms[k].board, rooms[k].currentDisk, index))
         # rooms[k].board

(***************************************************************************)
(* C32: on every board reached from the initial board by legal moves, a    *)
(* legal move of disk d with flip list F raises the count of d by 1 + |F|, *)
(* lowers the opponent's count by |F| and the number of empty cells by 1;  *)
(* the two counts and the number of empty cells add up to 64 on the board  *)
(* and on the board after the move.                                        *)
(***************************************************************************)
C32_Empty(board) == Cardinality({i \in DOMAIN board : board[i] = Null})

C32_Total(board) ==
  countDisks(board)[ "B" ] + countDisks(board)[ "W" ] + C32_Empty(board)

C32_Counts ==
  \A k \in DOMAIN rooms :
    LET board == rooms[k].board
    IN /\ C32_Total(board) = BOARD_SIZE * BOARD_SIZE
       /\ \A d \in Disks : \A index \in DOMAIN computeValidMoves(board, d) :
            LET F == computeValidMoves(board, d)[index]
                next == applyMove(board, index, d, F)
            IN /\ countDisks(next)[d] = countDisks(board)[d] + 1 + Cardinality(F)
               /\ countDisks(next)[nextDisk(d)]
                    = countDisks(board)[nextDisk(d)] - Cardinality(F)
               /\ C32_Empty(next) = C32_Empty(board) - 1
               /\ C32_Total(next) = BOARD_SIZE * BOARD_SIZE

\* A board forty or more moves into a game, reached by a move, on which the
\* disk on move has a move that captures three or more cells.
C32_Witness ==
  \E k \in DOMAIN rooms :
    /\ rooms[k].lastMove # NullMove
    /\ movesPlayed(rooms[k].board) > 40
    /\ \E index \in DOMAIN computeValidMoves(rooms[k].board, rooms[k].currentDisk) :
         Cardinality(computeValidMoves(rooms[k].board, rooms[k].currentDisk)[index]) >= 3

(***************************************************************************)
(* C33: a tick of the sweep forfeits only rooms that are playing with a    *)
(* recorded deadline not later than the current time.  Every other room of *)
(* the index (waiting, or playing with a deadline still ahead) and every   *)
(* session bound to it are left as they were, and every match-end the tick *)
(* sends is a timeout of a room that was expired; a room resolved earlier  *)
(* is no longer in the index and nothing is sent about it.                 *)
(***************************************************************************)
C33_EndsSent(S) ==
  { i \in DOMAIN S.outbox : S.outbox[i].type = "match:end" }

C33_OnlyExpiredForfeited ==
  LET S == sweep(Cur)
  IN /\ \A k \in DOMAIN rooms :
          ~C6_Expired(k) => k \in DOMAIN S.rooms /\ S.rooms[k] = rooms[k]
     /\ \A id \in DOMAIN clients :
          ~C6_Expired(clients[id].roomKey) => S.clients[id] = clients[id]
     /\ \A i \in C33_EndsSent(S) :
          /\ S.outbox[i].payload.reason = "timeout"
          /\ C6_Expired(S.outbox[i].payload.state.matchKey)
     /\ S.randomQueue = randomQueue

\* A tick at which one room is expired and forfeited while a waiting room
\* stays.
C33_Witness ==
  \E k \in DOMAIN rooms : \E j \in DOMAIN rooms :
    /\ C6_Expired(k)
    /\ rooms[j].status = "waiting"
    /\ k \notin DOMAIN sweep(Cur).rooms
    /\ j \in DOMAIN sweep(Cur).rooms
    /\ C33_EndsSent(sweep(Cur)) # {}

(***************************************************************************)
(* C34: the close of a transport, of the bound socket or of one a rebind   *)
(* terminated, changes no room (seats, spectators, deadline), no queue     *)
(* entry and no session's registration, status, room, role or disk, and    *)
(* sends nothing, neither when the socket leaves OPEN (on a close frame, a *)
(* failed stream or a frame that breaks the protocol) nor when its close   *)
(* event is delivered; while the session is away with its grace timer      *)
(* pending, every legal move of its opponent is still applied in its room. *)
(***************************************************************************)
C34_Binding(meta) ==
  <<meta.registered, meta.status, meta.roomKey, meta.role, meta.disk>>

C34_Kept(S) ==
  /\ S.rooms = rooms
  /\ S.randomQueue = randomQueue
  /\ S.outbox = << >>
  /\ DOMAIN S.clients = DOMAIN clients
  /\ \A c \in DOMAIN clients : C34_Binding(S.clients[c]) = C34_Binding(clients[c])

C34_CloseChangesNothing ==
  /\ \A id \in Connected : \A emitsError \in BOOLEAN :
       C34_Kept(transportClose(Cur, id, emitsError))
  /\ \A id \in DOMAIN clients :
       clients[id].socket \in {"OPEN", "CLOSING"}
         => C34_Kept(onClose([Cur EXCEPT !.clients[id].socket = "CLOSED"], id))
  /\ \A id \in DOMAIN clients :
       clients[id].stale > 0
         => C34_Kept(onClose([Cur EXCEPT !.clients[id].stale = @ - 1], id))
  /\ \A id \in Sessions : \A k \in DOMAIN rooms : \A disk \in Disks :
       ( /\ C5_Away(id) /\ clients[id].disconnectTimer
         /\ C5_Seated(id, k, disk)
         /\ rooms[k].currentDisk = nextDisk(disk)
         /\ rooms[k].players[nextDisk(disk)] \in Connected )
       => \A index \in Cells :
            LegalIn(k, index) =>
              LET S == handleMove(Cur, rooms[k].players[nextDisk(disk)], index)
              IN IF k \in DOMAIN S.rooms
                 THEN /\ S.rooms[k].board = BoardAfter(k, index)
                      /\ S.rooms[k].lastMove = index
                 ELSE \E i \in DOMAIN S.outbox :
                        /\ S.outbox[i].type = "match:end"
                        /\ S.outbox[i].payload.state.board = BoardAfter(k, index)

(***************************************************************************)
(* C35: in every playing room of the index the active disk has at least    *)
(* one legal move on the room's board, so the disk a timeout forfeits is   *)
(* one that could have moved.                                              *)
(***************************************************************************)
C35_ActiveDiskCanMove ==
  \A k \in DOMAIN rooms :
    rooms[k].status = "playing"
      => DOMAIN computeValidMoves(rooms[k].board, rooms[k].currentDisk) # {}

\* A playing room after a pass: the disk that made the last move is on move
\* again, its opponent having no legal move.
C35_Witness ==
  \E k \in DOMAIN rooms :
    /\ rooms[k].status = "playing"
    /\ rooms[k].lastMove # NullMove
    /\ rooms[k].board[rooms[k].lastMove] = rooms[k].currentDisk
    /\ DOMAIN computeValidMoves(rooms[k].board, nextDisk(rooms[k].currentDisk)) = {}
    /\ DOMAIN computeValidMoves(rooms[k].board, rooms[k].currentDisk) # {}

(***************************************************************************)
(* C36: every session identifier held in a seat or in the spectator set of *)
(* a room, or in the matchmaking queue, is in the session registry.        *)
(***************************************************************************)
C36_Held ==
  UNION { C15_Occupants(rooms[k]) \ {NullId} : k \in DOMAIN rooms }
    \cup { randomQueue[i] : i \in DOMAIN randomQueue }

C36_HeldIdsRegistered == C36_Held \subseteq Sessions

(***************************************************************************)
(* C38: after every event the matchmaking queue holds at most one session  *)
(* identifier, never the same identifier twice, and no identifier of a     *)
(* session that is seated or spectating in a room of the index.            *)
(***************************************************************************)
C38_Queued == { randomQueue[i] : i \in DOMAIN randomQueue }

C38_QueueAtMostOne ==
  /\ Len(randomQueue) <= 1
  /\ Cardinality(C38_Queued) = Len(randomQueue)
  /\ \A k \in DOMAIN rooms : C38_Queued \cap C15_Occupants(rooms[k]) = {}

\* One session is queued while two others are seated in a playing room that
\* a pairing from the queue started.
C38_Witness ==
  /\ Len(randomQueue) = 1
  /\ \E k \in DOMAIN rooms :
       /\ rooms[k].status = "playing"
       /\ {rooms[k].players.B, rooms[k].players.W} \cap C38_Queued = {}
       /\ \A d \in Disks : clients[rooms[k].players[d]].status = "playing"

(***************************************************************************)
(* C37: a room is resolved by one trigger.  A reaction sends match-end     *)
(* about a room of the index only when it removes the room, and then at    *)
(* most once to each session and with one reason and one winner; under a   *)
(* key that is in no room of the index (its room has ended, or it was      *)
(* never given) no reaction (move, leave, eviction timer, sweep, join,     *)
(* connection) sends match-end or an update, and the only one that puts a  *)
(* room under the key is the creation of a new room that draws it; and a   *)
(* session that still carries the key of a room it is in no longer (the    *)
(* room has ended or has been replaced) finds no room to act on: its       *)
(* leave, its eviction timer and its moves change no room and send no      *)
(* snapshot.                                                               *)
(***************************************************************************)
C37_Ends(S, k) ==
  { i \in DOMAIN S.outbox :
      /\ S.outbox[i].type = "match:end"
      /\ S.outbox[i].payload.state.matchKey = k }

C37_Ended == MatchKeys \ DOMAIN rooms

C37_EndedOnce ==
  \A S \in Reactions :
    /\ \A k \in DOMAIN rooms :
         /\ C37_Ends(S, k) # {} => k \notin DOMAIN S.rooms
         /\ \A i \in C37_Ends(S, k) : \A j \in C37_Ends(S, k) :
              /\ S.outbox[i].to = S.outbox[j].to => i = j
              /\ S.outbox[i].payload = S.outbox[j].payload
    /\ \A k \in C37_Ended :
         /\ \A i \in C16_About(S, k) :
              S.outbox[i].type = "match:start" /\ k \in DOMAIN S.rooms
         /\ k \in DOMAIN S.rooms =>
              /\ S.keysDrawn = keysDrawn + 1
              /\ S.rooms[k].board = createInitialBoard
              /\ S.rooms[k].lastMove = NullMove
              /\ S.rooms[k].winner = Null

\* The session carries the key of a room it is not in.
C37_Former(id) ==
  /\ clients[id].roomKey # NullKey
  /\ clients[id].roomKey \in DOMAIN rooms => ~InRoom(id, clients[id].roomKey)

\* The reactions to the triggers of a session on its room.
C37_Triggers(id) ==
  { handleLeave(Cur, id), onDisconnectTimer(Cur, id) }
    \cup { handleMove(Cur, id, index) : index \in MoveInputs(id) }

C37_LaterTriggersFindNoRoom ==
  \A id \in DOMAIN clients :
    C37_Former(id) =>
      \A S \in C37_Triggers(id) :
        /\ S.rooms = rooms
        /\ \A i \in DOMAIN S.outbox : S.outbox[i].type \notin C16_SnapshotTypes

\* C37: a room is ended once, and the triggers of a session whose room is
\* gone find no room.
C37_ResolvedOnce == C37_EndedOnce /\ C37_LaterTriggersFindNoRoom

(***************************************************************************)
(* C39: every applied move lowers the number of empty cells of the room's  *)
(* board by exactly one, no room of the index has had its sixtieth move    *)
(* (the board then is full and the room has ended), and a match in which   *)
(* the player on move always eventually moves ends: its room leaves the    *)
(* index, finished by the outcome of the board.                            *)
(***************************************************************************)
C39_MoveFillsOne ==
  \A k \in DOMAIN rooms : \A id \in Connected : \A index \in Cells :
    (OnMove(id, k) /\ LegalIn(k, index)) =>
      LET S == handleMove(Cur, id, index)
      IN /\ Snapshots(S, k) # {}
         /\ \A state \in Snapshots(S, k) :
              /\ C32_Empty(state.board) = C32_Empty(rooms[k].board) - 1
              /\ movesPlayed(state.board) = movesPlayed(rooms[k].board) + 1
         /\ k \in DOMAIN S.rooms =>
              /\ S.rooms[k].status = "playing"
              /\ C32_Empty(S.rooms[k].board) = C32_Empty(rooms[k].board) - 1
         /\ k \notin DOMAIN S.rooms =>
              \E i \in DOMAIN S.outbox :
                /\ S.outbox[i].type = "match:end"
                /\ S.outbox[i].payload.reason = "completed"
                /\ S.outbox[i].payload.state.winner \in {"B", "W", "draw"}
                /\ S.outbox[i].payload.state.turnDeadline = NullDeadline
                /\ ~CanMove(S.outbox[i].payload.state.board, "B")
                /\ ~CanMove(S.outbox[i].payload.state.board, "W")

C39_UnderSixty ==
  \A k \in DOMAIN rooms :
    /\ movesPlayed(rooms[k].board) < BOARD_SIZE * BOARD_SIZE - 4
    /\ movesPlayed(rooms[k].board) + C32_Empty(rooms[k].board)
         = BOARD_SIZE * BOARD_SIZE - 4

C39_MatchEnds ==
  /\ [](C39_MoveFillsOne /\ C39_UnderSixty)
  /\ <>(DOMAIN rooms = {})

\* The match is one move from a full board: the player on move has a legal
\* move into the last empty cell, and playing it ends the room.
C39_Witness ==
  \E k \in DOMAIN rooms : \E id \in Connected : \E index \in Cells :
    /\ OnMove(id, k) /\ LegalIn(k, index)
    /\ movesPlayed(rooms[k].board) = BOARD_SIZE * BOARD_SIZE - 5
    /\ k \notin DOMAIN handleMove(Cur, id, index).rooms

====
